---- MODULE Spec2Model ----
(***************************************************************************)
(* SIMSEA: project monitoring forms.                                       *)
(*   src/simsea_streamlit_app.py  Streamlit variant: one script run per    *)
(*       widget change or button click, per browser session, against the  *)
(*       tables users and projects.                                        *)
(*   src/simsea_app.py            Flask variant: public create form and    *)
(*       admin pages against the table proyectos_simsea.                   *)
(*                                                                         *)
(* Conventions of the model                                                *)
(*   - Python None / SQL NULL is the empty tuple None == <<>>.             *)
(*   - Texts the code inspects (project name, e-mail) are sequences of     *)
(*     one-character strings, so that strip() and the e-mail pattern are   *)
(*     computed.  User names and passwords are atoms.                      *)
(*   - Floats are modelled by integers; a percentage is the exact rational *)
(*     <<numerator, denominator>> in lowest terms, denominator > 0.        *)
(*   - A date object is its day number; its ISO text is <<"iso", day>>.    *)
(*   - The Streamlit script imports neither psycopg2 nor create_engine     *)
(*     (lines 127-130); the handlers below are modelled as they run once   *)
(*     those names resolve.                                                *)
(*   - One action is one script run (Streamlit) or one request (Flask),    *)
(*     including the rerun it triggers; the runs of different sessions are *)
(*     interleaved at that granularity.                                    *)
(*   - What a Streamlit run reports (st.error / st.success) is not kept in *)
(*     the state: for every button an operator <Button>Result gives the    *)
(*     branch the handler takes in a state, and the action follows it.     *)
(***************************************************************************)
EXTENDS Integers, Sequences, FiniteSets, TLC

VARIABLES
    users,              \* Streamlit table users: username -> password_hash
    projects,           \* Streamlit table projects: id -> row
    next_id,            \* next serial id of projects
    now,                \* datetime.utcnow(), advanced by every write
    ss,                 \* st.session_state of every browser session
    running,            \* per session: the button handler that is between two SQL statements
    proyectos_simsea,   \* Flask table proyectos_simsea: id -> row
    flask_next_id,      \* next AUTOINCREMENT id of proyectos_simsea
    percent_call,       \* a call of percent(): its arguments and what it returned
    flask_users,        \* Flask table users: username -> row
    session,            \* Flask session cookie of the one browser: None or the user logged in
    request,            \* the Flask request being handled, then the last one handled
    pc,                 \* where the Flask worker is in the request
    attempts,           \* nuevo_proyecto_public: attempts
    attempt,            \* get_conn: attempt
    conn_sleeps,        \* the time.sleep() calls of the get_conn call in progress, in ms
    insert_sleeps,      \* the time.sleep() calls of the insert loop of the request, in ms
    response,           \* what the last handled request was answered with
    sent_file,          \* the download send_file() answered it with, None when it sent none
    stdout,             \* what the Flask process has printed
    PANDAS_AVAILABLE    \* Flask, lines 25-29: whether import pandas succeeded

worker_vars ==
    <<flask_users, session, request, pc, attempts, attempt, conn_sleeps, insert_sleeps, response,
      sent_file, stdout, PANDAS_AVAILABLE>>

vars ==
    <<users, projects, next_id, now, ss, running, proyectos_simsea, flask_next_id, percent_call,
      flask_users, session, request, pc, attempts, attempt, conn_sleeps, insert_sleeps, response,
      sent_file, stdout, PANDAS_AVAILABLE>>

(***************************************************************************)
(* Bounds                                                                  *)
(***************************************************************************)
MaxRecords == 2         \* rows ever inserted into projects
MaxFlaskRecords == 1    \* rows ever inserted into proyectos_simsea
MaxVal == 2             \* largest number typed into a numeric field
MaxMetricRecords == 1   \* rows inserted into projects where computed columns are checked
MaxBoots == 3           \* starts of the Flask app in sequence that are compared

Sessions == {"s1", "s2"}
Usernames == {"alice", "bob"}

(***************************************************************************)
(* Values                                                                  *)
(***************************************************************************)
None == <<>>

\* edit_id and pending_delete_id hold an id or a falsy value; the script tests
\* only their truth, so the falsy "" (their entry in DEFAULTS) and None are
\* the one value None
IdOf(n) == <<"int", n>>
Truthy(v) == v # None /\ v[2] # 0

\* date.today(), the default of both date widgets
Today == 10

isoformat(d) == <<"iso", d>>

\* Texts as character sequences
EmptyText == <<>>
IsSpace(c) == c = " "

RECURSIVE lstrip(_)
lstrip(t) == IF t # <<>> /\ IsSpace(Head(t)) THEN lstrip(Tail(t)) ELSE t

RECURSIVE rstrip(_)
rstrip(t) == IF t # <<>> /\ IsSpace(t[Len(t)]) THEN rstrip(SubSeq(t, 1, Len(t) - 1)) ELSE t

strip(t) == rstrip(lstrip(t))

\* EMAIL_RE = ^[^@\s]+@[^@\s]+\.[^@\s]+$
EmailChar(c) == c # "@" /\ ~IsSpace(c)

EMAIL_RE_match(e) ==
    \E i \in 1..Len(e) :
        /\ e[i] = "@"
        /\ i > 1
        /\ \A k \in 1..(i - 1) : EmailChar(e[k])
        /\ \E j \in (i + 2)..(Len(e) - 1) :
              /\ e[j] = "."
              /\ \A k \in (i + 1)..(j - 1) : EmailChar(e[k])
              /\ \A k \in (j + 1)..Len(e) : EmailChar(e[k])

is_valid_email(email) == email # EmptyText /\ EMAIL_RE_match(email)

\* hashlib.sha256(plain).hexdigest(), injective on the passwords used; None for ""
hash_password(plain) == IF plain = "" THEN None ELSE <<"sha256", plain>>

ADMIN_USER == "admin"
ADMIN_PASSWORD == "admin"

(***************************************************************************)
(* Numbers                                                                 *)
(***************************************************************************)
Abs(x) == IF x < 0 THEN -x ELSE x

RECURSIVE Gcd(_, _)
Gcd(a, b) == IF b = 0 THEN a ELSE Gcd(b, a % b)

\* the rational n/d (d # 0) in lowest terms with a positive denominator
Rat(n, d) ==
    LET g == Gcd(Abs(n), Abs(d))
        sgn == IF d < 0 THEN -1 ELSE 1
    IN  <<(sgn * n) \div g, (sgn * d) \div g>>

\* a/b (b > 0) rounded to the nearest integer, ties to even: Python's round()
RoundPos(a, b) ==
    LET q == a \div b
        r == a % b
    IN  IF 2 * r < b THEN q
        ELSE IF 2 * r > b THEN q + 1
        ELSE IF q % 2 = 0 THEN q ELSE q + 1

RoundDiv(a, b) == IF b < 0 THEN RoundPos(-a, -b) ELSE RoundPos(a, b)

\* mutant of percent: the quotient is not rounded
percent_unrounded(numerator, denominator) ==
    IF denominator = 0 THEN None ELSE Rat(100 * numerator, denominator)

\* round(100.0 * numerator / denominator, 2); None when the denominator is 0
percent(numerator, denominator) ==
    IF denominator = 0 THEN None
    ELSE Rat(RoundDiv(10000 * numerator, denominator), 100)

\* Flask: (a / b * 100) if b not in (0, None) else None
flask_percent(a, b) == IF b = 0 THEN None ELSE Rat(100 * a, b)

(***************************************************************************)
(* Streamlit: session_state                                                *)
(***************************************************************************)
\* DEFAULTS over the SHORT_KEYS the model keeps.  The falsy "" of the two control
\* flags is FALSE (__do_reset__) and None (__pending_load__), that of edit_id and
\* pending_delete_id is None: the script reads only their truth value.  sidebar_password has no widget and stays "", so
\* usuario_password is always NULL and is left out.
DEFAULTS == [
    sidebar_usuario |-> "",
    edit_id |-> None,
    pending_load |-> None,
    do_reset |-> FALSE,
    pending_delete_id |-> None,
    nombre_proyecto |-> EmptyText,
    pais_intervencion |-> "",
    pueblo_nacionalidad |-> EmptyText,
    fecha_inicio |-> Today,
    fecha_fin |-> Today,
    latitud |-> 0,
    longitud |-> 0,
    beneficiarios_hombres |-> 0,
    beneficiarios_mujeres |-> 0,
    beneficiarios_glbti |-> 0,
    meta_proyecto |-> 0,
    total_meta_cumplida_acumulada |-> 0,
    presupuesto_programado_total |-> 0,
    presupuesto_devengado_total |-> 0,
    meta_plan_1 |-> 0, meta_cum_1 |-> 0, pres_prog_1 |-> 0, pres_dev_1 |-> 0,
    meta_plan_2 |-> 0, meta_cum_2 |-> 0, pres_prog_2 |-> 0, pres_dev_2 |-> 0,
    meta_plan_3 |-> 0, meta_cum_3 |-> 0, pres_prog_3 |-> 0, pres_dev_3 |-> 0,
    meta_plan_4 |-> 0, meta_cum_4 |-> 0, pres_prog_4 |-> 0, pres_dev_4 |-> 0,
    meta_plan_anual |-> 0, meta_cum_anual |-> 0, pres_prog_anual |-> 0, pres_dev_anual |-> 0,
    correo_responsable |-> EmptyText
]

SHORT_KEYS == DOMAIN DEFAULTS

\* lines 318-320: the country selectbox shows the session value when it is one
\* of its options and the first option otherwise; its key then holds what it shows
pais_list == <<"Ecuador", "Peru", "Biorregional">>
RenderWidgets(st) ==
    IF \E i \in DOMAIN pais_list : pais_list[i] = st.pais_intervencion THEN st
    ELSE [st EXCEPT !.pais_intervencion = pais_list[1]]

\* widget state outside SHORT_KEYS: the admin credentials typed in the sidebar
WidgetDefaults == [admin_user_input |-> "", admin_pwd_input |-> ""]

\* session_state after the first script run of a session (lines 190-202)
InitialSession == RenderWidgets(DEFAULTS @@ WidgetDefaults)

\* mutant of ApplyReset: the reset leaves the selection
ApplyReset_keeps_selection(st) ==
    IF st.do_reset
    THEN [k \in DOMAIN st |->
            IF k = "edit_id" THEN st[k]
            ELSE IF k = "pending_delete_id" THEN None
            ELSE IF k = "do_reset" THEN FALSE
            ELSE IF k \in SHORT_KEYS THEN DEFAULTS[k]
            ELSE st[k]]
    ELSE st

\* lines 205-210: a pending reset restores every SHORT_KEY, the active user included
ApplyReset(st) ==
    IF st.do_reset
    THEN [k \in DOMAIN st |->
            IF k \in {"edit_id", "pending_delete_id"} THEN None
            ELSE IF k = "do_reset" THEN FALSE
            ELSE IF k \in SHORT_KEYS THEN DEFAULTS[k]
            ELSE st[k]]
    ELSE st

\* lines 212-220: a pending load copies the payload into the form
ApplyLoad(st) ==
    IF st.pending_load # None
    THEN LET payload == st.pending_load
         IN  [k \in DOMAIN st |->
                IF k = "pending_load" THEN None
                ELSE IF k = "edit_id" /\ "_edit_id_" \in DOMAIN payload THEN payload["_edit_id_"]
                ELSE IF k \in DOMAIN payload THEN payload[k]
                ELSE st[k]]
    ELSE st

\* the top of every script run
ScriptTop(st) == RenderWidgets(ApplyLoad(ApplyReset(st)))

\* lines 231-237
is_admin(st) ==
    /\ st.admin_user_input # ""
    /\ st.admin_pwd_input # ""
    /\ st.admin_user_input = ADMIN_USER
    /\ st.admin_pwd_input = ADMIN_PASSWORD

(***************************************************************************)
(* Streamlit: rows of the table projects                                   *)
(***************************************************************************)
\* a nullable numeric column holds None or <<value>>
Some(x) == <<x>>

\* mutant of total_benef: one group left out of the total
total_benef_without_glbti(h, m, g) == h + m

\* line 429 (build_row_from_inputs) and line 654 (update): the stored total
total_benef(h, m, g) == h + m + g

update_total_benef(h, m, g) == h + m + g

\* lines 492-495: the four annual values are the sums of the quarterly values
meta_plan_anual(st) == st.meta_plan_1 + st.meta_plan_2 + st.meta_plan_3 + st.meta_plan_4
meta_cum_anual(st) == st.meta_cum_1 + st.meta_cum_2 + st.meta_cum_3 + st.meta_cum_4
pres_prog_anual(st) == st.pres_prog_1 + st.pres_prog_2 + st.pres_prog_3 + st.pres_prog_4
pres_dev_anual(st) == st.pres_dev_1 + st.pres_dev_2 + st.pres_dev_3 + st.pres_dev_4

\* the columns both INSERT and UPDATE write from the form (lines 434-482, 644-700)
FormColumns(st) == [
    nombre_proyecto |-> st.nombre_proyecto,
    pais_intervencion |-> st.pais_intervencion,
    pueblo_nacionalidad |-> st.pueblo_nacionalidad,
    latitud |-> Some(st.latitud),
    longitud |-> Some(st.longitud),
    beneficiarios_hombres |-> st.beneficiarios_hombres,
    beneficiarios_mujeres |-> st.beneficiarios_mujeres,
    beneficiarios_glbti |-> st.beneficiarios_glbti,
    fecha_inicio |-> isoformat(st.fecha_inicio),
    fecha_fin |-> isoformat(st.fecha_fin),
    duracion_dias |-> Some(st.fecha_fin - st.fecha_inicio),
    meta_proyecto |-> st.meta_proyecto,
    total_meta_cumplida_acumulada |-> st.total_meta_cumplida_acumulada,
    porc_ejecucion_fisica |-> percent(st.total_meta_cumplida_acumulada, st.meta_proyecto),
    presupuesto_programado_total |-> st.presupuesto_programado_total,
    presupuesto_devengado_total |-> st.presupuesto_devengado_total,
    porc_ejecucion_presupuestaria |->
        percent(st.presupuesto_devengado_total, st.presupuesto_programado_total),
    correo_responsable |-> st.correo_responsable,
    meta_plan_1 |-> st.meta_plan_1, meta_cum_1 |-> st.meta_cum_1,
    pres_prog_1 |-> st.pres_prog_1, pres_dev_1 |-> st.pres_dev_1,
    meta_plan_2 |-> st.meta_plan_2, meta_cum_2 |-> st.meta_cum_2,
    pres_prog_2 |-> st.pres_prog_2, pres_dev_2 |-> st.pres_dev_2,
    meta_plan_3 |-> st.meta_plan_3, meta_cum_3 |-> st.meta_cum_3,
    pres_prog_3 |-> st.pres_prog_3, pres_dev_3 |-> st.pres_dev_3,
    meta_plan_4 |-> st.meta_plan_4, meta_cum_4 |-> st.meta_cum_4,
    pres_prog_4 |-> st.pres_prog_4, pres_dev_4 |-> st.pres_dev_4
]

\* lines 420-496: the row Guardar inserts
build_row_from_inputs(st, input_usuario_value, utcnow) ==
    [created_at |-> utcnow,
     usuario |-> input_usuario_value,
     total_beneficiarios |->
        total_benef(st.beneficiarios_hombres, st.beneficiarios_mujeres, st.beneficiarios_glbti),
     meta_plan_anual |-> meta_plan_anual(st),
     meta_cum_anual |-> meta_cum_anual(st),
     pres_prog_anual |-> pres_prog_anual(st),
     pres_dev_anual |-> pres_dev_anual(st)]
    @@ FormColumns(st)

\* lines 641-700: the columns Actualizar assigns; created_at and the four annual
\* columns are not among them, usuario is
update_row(st, input_usuario) ==
    [usuario |-> input_usuario,
     total_beneficiarios |->
        update_total_benef(st.beneficiarios_hombres, st.beneficiarios_mujeres,
                           st.beneficiarios_glbti)]
    @@ FormColumns(st)

\* UPDATE projects SET <row> WHERE id = <id>: no row, no effect
SqlUpdate_leaves_name(table, id, row) ==
    IF id \in DOMAIN table
    THEN [table EXCEPT ![id] = [k \in DOMAIN @ |->
            IF k \in DOMAIN row \ {"nombre_proyecto"} THEN row[k] ELSE @[k]]]
    ELSE table

SqlUpdate(table, id, row) ==
    IF id \in DOMAIN table
    THEN [table EXCEPT ![id] = [k \in DOMAIN @ |-> IF k \in DOMAIN row THEN row[k] ELSE @[k]]]
    ELSE table

\* DELETE FROM projects WHERE id = <id>
SqlDelete(table, id) == [i \in DOMAIN table \ {id} |-> table[i]]

\* mutants of can_mutate: the owner comparison dropped; the admin bypass dropped
can_mutate_any_user(admin, owner, input_usuario) == admin \/ owner # None

can_mutate_owner_only(admin, owner, input_usuario) == owner = Some(input_usuario)

\* lines 636-637 and 738-740: only the creator or an admin may write
can_mutate(admin, owner, input_usuario) == admin \/ owner = Some(input_usuario)

\* mutant of SaveErrors: the name is tested without strip()
SaveErrors_unstripped(st) ==
    \/ st.sidebar_usuario = ""
    \/ (st.correo_responsable # EmptyText /\ ~is_valid_email(st.correo_responsable))
    \/ st.fecha_fin < st.fecha_inicio
    \/ st.nombre_proyecto = EmptyText

\* lines 505-515: the form checks of Guardar
SaveErrors(st) ==
    \/ st.sidebar_usuario = ""
    \/ (st.correo_responsable # EmptyText /\ ~is_valid_email(st.correo_responsable))
    \/ st.fecha_fin < st.fecha_inicio
    \/ st.nombre_proyecto = EmptyText
    \/ strip(st.nombre_proyecto) = EmptyText

\* lines 611-627: the form checks of Actualizar
UpdateErrors(st) ==
    \/ st.sidebar_usuario = ""
    \/ (st.correo_responsable # EmptyText /\ ~is_valid_email(st.correo_responsable))
    \/ st.fecha_fin < st.fecha_inicio
    \/ st.nombre_proyecto = EmptyText
    \/ strip(st.nombre_proyecto) = EmptyText

\* lines 563-591: what Buscar loads into the form from the row found
LoadPayload_dates_default(recd, search_id_val) ==
    [k \in (DOMAIN recd \cap SHORT_KEYS) \cup {"_edit_id_"} |->
        IF k = "_edit_id_" THEN IdOf(search_id_val)
        ELSE IF k \in {"fecha_inicio", "fecha_fin"} THEN DEFAULTS[k]
        ELSE IF k \in {"latitud", "longitud"}
             THEN (IF recd[k] = None THEN DEFAULTS[k] ELSE recd[k][1])
        ELSE recd[k]]

LoadPayload(recd, search_id_val) ==
    [k \in (DOMAIN recd \cap SHORT_KEYS) \cup {"_edit_id_"} |->
        IF k = "_edit_id_" THEN IdOf(search_id_val)
        ELSE IF k \in {"fecha_inicio", "fecha_fin"}
             THEN (IF recd[k][1] = "iso" THEN recd[k][2] ELSE DEFAULTS[k])
        ELSE IF k \in {"latitud", "longitud"}
             THEN (IF recd[k] = None THEN DEFAULTS[k] ELSE recd[k][1])
        ELSE recd[k]]

(***************************************************************************)
(* Streamlit: the branch a handler takes, named by the message it shows    *)
(***************************************************************************)
\* lines 267-281: "Registrar usuario"
RegisterResult(tbl, new_user, new_pwd, new_pwd2) ==
    IF new_user = "" \/ new_pwd = "" THEN "reg_missing"       \* line 269
    ELSE IF new_pwd # new_pwd2 THEN "reg_mismatch"           \* line 271
    ELSE IF new_user \in DOMAIN tbl THEN "reg_exists"        \* line 279
    ELSE "reg_ok"                                            \* line 277

\* lines 247-261: "Iniciar sesion"
LoginResult(tbl, username_input, password_input) ==
    IF username_input = "" \/ password_input = "" THEN "login_missing"   \* line 249
    ELSE IF username_input \in DOMAIN tbl
    THEN (IF tbl[username_input] = hash_password(password_input)
          THEN "login_ok"                                                \* line 257
          ELSE "login_bad_password")                                     \* line 259
    ELSE "login_no_user"                                                 \* line 261

\* lines 500-531: "Guardar (nuevo)"
SaveResult(st) == IF SaveErrors(st) THEN "save_invalid" ELSE "save_ok"

\* lines 552-597: "Buscar / Seleccionar registro"
SearchResult(tbl, search_id_val) ==
    IF search_id_val <= 0 THEN "search_invalid_id"                  \* line 554
    ELSE IF search_id_val \notin DOMAIN tbl THEN "search_not_found" \* line 559
    ELSE "search_loaded"

\* line 634-636: owner = rec[0] if rec else None
OwnerOf(tbl, id) == IF id \in DOMAIN tbl THEN Some(tbl[id].usuario) ELSE None

\* lines 606-710: "Actualizar registro seleccionado"
UpdateResult(st, tbl) ==
    IF ~Truthy(st.edit_id) THEN "update_no_selection"              \* line 609
    ELSE IF UpdateErrors(st) THEN "update_invalid"                 \* line 630
    ELSE IF ~can_mutate(is_admin(st), OwnerOf(tbl, st.edit_id[2]), st.sidebar_usuario)
    THEN "update_denied"                                           \* line 638
    ELSE "update_ok"                                               \* line 705

\* lines 713-720: "Marcar registro para eliminacion"
MarkResult(st) == IF ~Truthy(st.edit_id) THEN "mark_no_selection" ELSE "marked"

\* lines 733-748: "CONFIRMAR ELIMINACION" (rendered while pending_delete_id is set)
ConfirmResult(st, tbl) ==
    LET pdid == st.pending_delete_id IN
    IF pdid[2] \notin DOMAIN tbl THEN "delete_not_found"           \* line 736
    ELSE IF ~can_mutate(is_admin(st), Some(tbl[pdid[2]].usuario), st.sidebar_usuario)
    THEN "delete_denied"                                           \* line 741
    ELSE "delete_ok"                                               \* line 745

(***************************************************************************)
(* Streamlit: what a handler leaves in the tables and in session_state,    *)
(* the rerun it asks for included                                          *)
(***************************************************************************)
RegisterTable(tbl, new_user, new_pwd, new_pwd2) ==
    IF RegisterResult(tbl, new_user, new_pwd, new_pwd2) = "reg_ok"
    THEN tbl @@ (new_user :> hash_password(new_pwd))          \* lines 274-276
    ELSE tbl

LoginSession(st, tbl, username_input, password_input) ==
    IF LoginResult(tbl, username_input, password_input) = "login_ok"
    THEN [st EXCEPT !.sidebar_usuario = username_input]       \* line 256
    ELSE st

SaveTable(st, tbl, id, utcnow) ==
    IF SaveResult(st) = "save_ok"
    THEN tbl @@ (id :> build_row_from_inputs(st, st.sidebar_usuario, utcnow))  \* lines 521-525
    ELSE tbl

SaveSession(st) ==
    IF SaveResult(st) = "save_ok"
    THEN ScriptTop([st EXCEPT !.do_reset = TRUE])             \* lines 527-528
    ELSE st

\* lines 534-540: limpiar_todo
LimpiarSession(st) ==
    ScriptTop([k \in DOMAIN st |->
                IF k = "sidebar_usuario" THEN ""
                ELSE IF k = "do_reset" THEN FALSE
                ELSE IF k \in SHORT_KEYS THEN DEFAULTS[k]
                ELSE st[k]])

SearchSession(st, tbl, search_id_val) ==
    IF SearchResult(tbl, search_id_val) = "search_loaded"
    THEN ScriptTop([st EXCEPT
            !.pending_load = LoadPayload(tbl[search_id_val], search_id_val),   \* line 592
            !.edit_id = IdOf(search_id_val)])                                  \* line 596
    ELSE st

UpdateTable(st, tbl) ==
    IF UpdateResult(st, tbl) = "update_ok"
    THEN SqlUpdate(tbl, st.edit_id[2], update_row(st, st.sidebar_usuario))     \* lines 701-704
    ELSE tbl

UpdateSession(st, tbl) ==
    IF UpdateResult(st, tbl) = "update_ok"
    THEN ScriptTop([st EXCEPT !.do_reset = TRUE])             \* lines 706-707
    ELSE st

MarkSession(st) ==
    IF MarkResult(st) = "marked"
    THEN ScriptTop([st EXCEPT !.pending_delete_id = st.edit_id])   \* lines 718-720
    ELSE st

ConfirmTable(st, tbl) ==
    IF ConfirmResult(st, tbl) = "delete_ok"
    THEN SqlDelete(tbl, st.pending_delete_id[2])              \* lines 743-744
    ELSE tbl

ConfirmSession(st, tbl) ==
    IF ConfirmResult(st, tbl) = "delete_ok"
    THEN ScriptTop([st EXCEPT !.do_reset = TRUE, !.pending_delete_id = None])  \* lines 746-748
    ELSE st

CancelSession(st) == ScriptTop([st EXCEPT !.pending_delete_id = None])  \* lines 754-756

(***************************************************************************)
(* Streamlit: the script runs                                              *)
(***************************************************************************)
StoreUnchanged == UNCHANGED <<users, projects, next_id, now>>
CallUnchanged == UNCHANGED percent_call
WorkerUnchanged == UNCHANGED worker_vars
RunUnchanged == UNCHANGED running
FlaskUnchanged ==
    /\ UNCHANGED <<proyectos_simsea, flask_next_id>>
    /\ CallUnchanged /\ WorkerUnchanged /\ RunUnchanged

\* a widget of the form or of the sidebar is changed: a run with no button pressed
SetField(s, k, v) ==
    /\ ss[s][k] # v
    /\ ss' = [ss EXCEPT ![s] = [ScriptTop(@) EXCEPT ![k] = v]]
    /\ StoreUnchanged /\ FlaskUnchanged

Register(s, new_user, new_pwd, new_pwd2) ==
    /\ ss' = [ss EXCEPT ![s] = ScriptTop(@)]
    /\ users' = RegisterTable(users, new_user, new_pwd, new_pwd2)
    /\ UNCHANGED <<projects, next_id, now>> /\ FlaskUnchanged

Login(s, username_input, password_input) ==
    /\ ss' = [ss EXCEPT ![s] = LoginSession(ScriptTop(@), users, username_input, password_input)]
    /\ StoreUnchanged /\ FlaskUnchanged

\* an INSERT is explored only while fewer than MaxRecords rows were ever inserted
Save(s) ==
    LET st == ScriptTop(ss[s]) IN
    /\ SaveResult(st) = "save_ok" => next_id <= MaxRecords
    /\ projects' = SaveTable(st, projects, next_id, now)
    /\ next_id' = IF SaveResult(st) = "save_ok" THEN next_id + 1 ELSE next_id
    /\ now' = IF SaveResult(st) = "save_ok" THEN now + 1 ELSE now
    /\ ss' = [ss EXCEPT ![s] = SaveSession(st)]
    /\ users' = users /\ FlaskUnchanged

limpiar_todo(s) ==
    /\ ss' = [ss EXCEPT ![s] = LimpiarSession(@)]
    /\ StoreUnchanged /\ FlaskUnchanged

Search(s, search_id_val) ==
    /\ ss' = [ss EXCEPT ![s] = SearchSession(ScriptTop(@), projects, search_id_val)]
    /\ StoreUnchanged /\ FlaskUnchanged

Update(s) ==
    LET st == ScriptTop(ss[s]) IN
    /\ projects' = UpdateTable(st, projects)
    /\ ss' = [ss EXCEPT ![s] = UpdateSession(st, projects)]
    /\ UNCHANGED <<users, next_id, now>> /\ FlaskUnchanged

\* mutant of MarkDelete: the first click already deletes the selected row
MarkDelete_single_click(s) ==
    /\ Truthy(ss[s].edit_id)
    /\ projects' = SqlDelete(projects, ss[s].edit_id[2])
    /\ ss' = [ss EXCEPT ![s] = MarkSession(ScriptTop(@))]
    /\ UNCHANGED <<users, next_id, now>> /\ FlaskUnchanged

MarkDelete(s) ==
    /\ ss' = [ss EXCEPT ![s] = MarkSession(ScriptTop(@))]
    /\ StoreUnchanged /\ FlaskUnchanged

\* the two buttons below are rendered only while pending_delete_id is set (line 722)
ConfirmDelete(s) ==
    LET st == ScriptTop(ss[s]) IN
    /\ Truthy(st.pending_delete_id)
    /\ projects' = ConfirmTable(st, projects)
    /\ ss' = [ss EXCEPT ![s] = ConfirmSession(st, projects)]
    /\ UNCHANGED <<users, next_id, now>> /\ FlaskUnchanged

CancelDelete(s) ==
    LET st == ScriptTop(ss[s]) IN
    /\ Truthy(st.pending_delete_id)
    /\ ss' = [ss EXCEPT ![s] = CancelSession(st)]
    /\ StoreUnchanged /\ FlaskUnchanged

(***************************************************************************)
(* Listing                                                                 *)
(***************************************************************************)
\* ORDER BY key DESC over the rows ids of a table
RECURSIVE OrderByDesc(_, _)
OrderByDesc(ids, key) ==
    IF ids = {} THEN <<>>
    ELSE LET m == CHOOSE i \in ids : \A j \in ids : key[j] <= key[i]
         IN  <<m>> \o OrderByDesc(ids \ {m}, key)

\* the characters of a user name, for the filters that search inside it
text_of(name) ==
    IF name = "alice" THEN <<"a", "l", "i", "c", "e">>
    ELSE IF name = "bob" THEN <<"b", "o", "b">>
    ELSE IF name = "" THEN EmptyText
    ELSE <<name>>

\* case folding of re.IGNORECASE over the letters that are typed here
casefold(c) == IF c = "A" THEN "a" ELSE IF c = "B" THEN "b" ELSE c

\* pandas Series.str.contains(pat, case=False, na=False), lines 796 and 800: pat
\* is a regular expression (regex=True is the default) searched with re.IGNORECASE.
\* Of the regular expressions, the literal characters and '.' (any character)
\* are modelled.
re_matches_at(pat, text, i) ==
    \A j \in 1..Len(pat) : pat[j] = "." \/ casefold(pat[j]) = casefold(text[i + j - 1])

str_contains(text, pat) ==
    \E i \in 1..(Len(text) - Len(pat) + 1) : re_matches_at(pat, text, i)

\* lines 785-800: the rows the panel shows, as the sequence of their ids
panel_df(tbl, filtro_pueblo, filtro_pais, filtro_usuario) ==
    LET kept == {i \in DOMAIN tbl :
                    /\ filtro_pueblo # EmptyText =>
                            str_contains(tbl[i].pueblo_nacionalidad, filtro_pueblo)
                    /\ filtro_pais # "" => tbl[i].pais_intervencion = filtro_pais
                    /\ filtro_usuario # EmptyText =>
                            str_contains(text_of(tbl[i].usuario), filtro_usuario)}
    IN  OrderByDesc(kept, [i \in kept |-> tbl[i].created_at])

\* Flask, lines 389-396: SELECT * FROM proyectos_simsea ORDER BY id DESC
listar_proyectos_rows(tbl) == OrderByDesc(DOMAIN tbl, [i \in DOMAIN tbl |-> i])

(***************************************************************************)
(* Streamlit: update and delete, statement by statement                    *)
(*                                                                         *)
(* Update(s) and ConfirmDelete(s) above are the handlers when no other     *)
(* session writes while they run.  Every script run has its own connection *)
(* (lines 130-139), the SELECT that reads the owner takes no lock, and the *)
(* UPDATE or DELETE that follows is another statement: the actions below   *)
(* stop between the two, where the other sessions can commit.              *)
(***************************************************************************)
\* lines 606-636: the update button with a selection and a valid form, up to
\* SELECT usuario FROM projects WHERE id = edit_id
UpdateSelect(s) ==
    LET st == ScriptTop(ss[s]) IN
    /\ running[s] = None
    /\ Truthy(st.edit_id)
    /\ ~UpdateErrors(st)
    /\ running' = [running EXCEPT ![s] =
            [op |-> "update", id |-> st.edit_id[2], owner |-> OwnerOf(projects, st.edit_id[2])]]
    /\ ss' = [ss EXCEPT ![s] = st]
    /\ StoreUnchanged
    /\ UNCHANGED <<proyectos_simsea, flask_next_id>> /\ CallUnchanged /\ WorkerUnchanged

\* lines 637-707: the permission test on the owner that was read, then the
\* UPDATE, the commit and the reset
UpdateWrite(s) ==
    LET st == ss[s]
        permitted == can_mutate(is_admin(st), running[s].owner, st.sidebar_usuario)
    IN
    /\ running[s] # None
    /\ running[s].op = "update"
    /\ running' = [running EXCEPT ![s] = None]
    /\ projects' = IF permitted
                        THEN SqlUpdate(projects, running[s].id,
                                       update_row(st, st.sidebar_usuario))
                        ELSE projects
    /\ ss' = IF permitted THEN [ss EXCEPT ![s] = ScriptTop([st EXCEPT !.do_reset = TRUE])]
                          ELSE ss
    /\ UNCHANGED <<users, next_id, now>>
    /\ UNCHANGED <<proyectos_simsea, flask_next_id>> /\ CallUnchanged /\ WorkerUnchanged

\* lines 722-731: a run with a pending deletion renders the confirmation from
\* SELECT id, nombre_proyecto, usuario FROM projects WHERE id = pending_delete_id
ConfirmSelect(s) ==
    LET st == ScriptTop(ss[s]) IN
    /\ running[s] = None
    /\ Truthy(st.pending_delete_id)
    /\ running' = [running EXCEPT ![s] =
            [op |-> "delete", id |-> st.pending_delete_id[2],
             owner |-> OwnerOf(projects, st.pending_delete_id[2])]]
    /\ ss' = [ss EXCEPT ![s] = st]
    /\ StoreUnchanged
    /\ UNCHANGED <<proyectos_simsea, flask_next_id>> /\ CallUnchanged /\ WorkerUnchanged

\* lines 732-750: the confirm button of that run: the tests on the record that
\* was read, then the DELETE, the commit and the reset
ConfirmWrite(s) ==
    LET st == ss[s]
        permitted == /\ running[s].owner # None
                     /\ can_mutate(is_admin(st), running[s].owner, st.sidebar_usuario)
    IN
    /\ running[s] # None
    /\ running[s].op = "delete"
    /\ running' = [running EXCEPT ![s] = None]
    /\ projects' = IF permitted THEN SqlDelete(projects, running[s].id) ELSE projects
    /\ ss' = IF permitted
                THEN [ss EXCEPT ![s] =
                        ScriptTop([st EXCEPT !.do_reset = TRUE, !.pending_delete_id = None])]
                ELSE ss
    /\ UNCHANGED <<users, next_id, now>>
    /\ UNCHANGED <<proyectos_simsea, flask_next_id>> /\ CallUnchanged /\ WorkerUnchanged

(***************************************************************************)
(* Flask: POST /proyecto/nuevo                                             *)
(***************************************************************************)
\* A submitted form maps field names to raw texts.  A raw text is Str(chars) or
\* Num(n), the decimal text of the number n; a field the request does not carry
\* reads as None.  ISO date texts are isoformat(d).
Str(t) == <<"str", t>>
Num(n) == <<"num", n>>

form_get(form, key) == IF key \in DOMAIN form THEN form[key] ELSE None

\* Python's "x or 0" on form.get(key): None and "" are falsy
or_zero(v) == IF v = None \/ v = Str(EmptyText) THEN Num(0) ELSE v

\* int(text) / float(text) succeed on a number's text and raise ValueError otherwise
parses(v) == v[1] = "num"
number_of(v) == v[2]

\* lines 200-201: f(key) is the stripped text, '' when the field is missing
f(form, key) ==
    LET v == form_get(form, key) IN
    IF v = None THEN Str(EmptyText)
    ELSE IF v[1] = "str" THEN Str(strip(v[2])) ELSE v

\* lines 210-213: float(lat) if lat else None, None when float() raises
coordinate(v) == IF v[1] = "num" THEN Some(v[2]) ELSE None

\* mutant of duracion: 0 where no duration can be computed
duracion_or_zero(fecha_inicio, fecha_final) ==
    IF fecha_inicio # None /\ fecha_final # None
          /\ fecha_inicio[1] = "iso" /\ fecha_final[1] = "iso"
    THEN Some(fecha_final[2] - fecha_inicio[2])
    ELSE Some(0)

\* lines 221-228: whole days between two ISO texts, None when either is empty or
\* does not parse
duracion(fecha_inicio, fecha_final) ==
    IF fecha_inicio # None /\ fecha_final # None
          /\ fecha_inicio[1] = "iso" /\ fecha_final[1] = "iso"
    THEN Some(fecha_final[2] - fecha_inicio[2])
    ELSE None

\* the fields read with int(form.get(k) or 0) or float(form.get(k) or 0),
\* lines 215-217 and 235-260
NumericFields == {
    "beneficiarios_hombres", "beneficiarios_mujeres", "beneficiarios_glbti",
    "meta_proyecto", "total_meta_cumplida_acumulada",
    "presupuesto_programado_total", "presupuesto_devengado_total",
    "meta_planificada_1", "meta_cumplida_1", "presupuesto_programado_1", "presupuesto_devengado_1",
    "meta_planificada_2", "meta_cumplida_2", "presupuesto_programado_2", "presupuesto_devengado_2",
    "meta_planificada_3", "meta_cumplida_3", "presupuesto_programado_3", "presupuesto_devengado_3",
    "meta_planificada_4", "meta_cumplida_4", "presupuesto_programado_4", "presupuesto_devengado_4"}

num(form, key) == number_of(or_zero(form_get(form, key)))

\* line 218
total_ben(ben_h, ben_m, ben_g) == ben_h + ben_m + ben_g

\* lines 262-263 and 317-318
meta_planificada_anual(form) ==
    num(form, "meta_planificada_1") + num(form, "meta_planificada_2")
        + num(form, "meta_planificada_3") + num(form, "meta_planificada_4")
meta_cumplida_anual(form) ==
    num(form, "meta_cumplida_1") + num(form, "meta_cumplida_2")
        + num(form, "meta_cumplida_3") + num(form, "meta_cumplida_4")
presupuesto_programado_anual(form) ==
    num(form, "presupuesto_programado_1") + num(form, "presupuesto_programado_2")
        + num(form, "presupuesto_programado_3") + num(form, "presupuesto_programado_4")
presupuesto_devengado_anual(form) ==
    num(form, "presupuesto_devengado_1") + num(form, "presupuesto_devengado_2")
        + num(form, "presupuesto_devengado_3") + num(form, "presupuesto_devengado_4")

\* lines 285-321: the inserted row.  The columns of the table the INSERT does not
\* name (lines 129-138) keep their default NULL.
insert_values(form, utcnow) ==
    [nombre_proyecto |-> f(form, "nombre_proyecto"),
     latitud |-> coordinate(f(form, "latitud")),
     longitud |-> coordinate(f(form, "longitud")),
     beneficiarios_hombres |-> num(form, "beneficiarios_hombres"),
     beneficiarios_mujeres |-> num(form, "beneficiarios_mujeres"),
     beneficiarios_glbti |-> num(form, "beneficiarios_glbti"),
     total_beneficiarios |->
        total_ben(num(form, "beneficiarios_hombres"), num(form, "beneficiarios_mujeres"),
                  num(form, "beneficiarios_glbti")),
     fecha_inicio |-> form_get(form, "fecha_inicio"),
     fecha_finalizacion |-> form_get(form, "fecha_finalizacion"),
     duracion_proyecto |->
        duracion(form_get(form, "fecha_inicio"), form_get(form, "fecha_finalizacion")),
     meta_proyecto |-> num(form, "meta_proyecto"),
     total_meta_cumplida_acumulada |-> num(form, "total_meta_cumplida_acumulada"),
     porcentaje_ejecucion_fisica |->
        flask_percent(num(form, "total_meta_cumplida_acumulada"), num(form, "meta_proyecto")),
     presupuesto_programado_total |-> num(form, "presupuesto_programado_total"),
     presupuesto_devengado_total |-> num(form, "presupuesto_devengado_total"),
     porcentaje_ejecucion_presupuestaria |->
        flask_percent(num(form, "presupuesto_devengado_total"),
                      num(form, "presupuesto_programado_total")),
     meta_planificada_1 |-> num(form, "meta_planificada_1"),
     meta_cumplida_1 |-> num(form, "meta_cumplida_1"),
     presupuesto_programado_1 |-> num(form, "presupuesto_programado_1"),
     presupuesto_devengado_1 |-> num(form, "presupuesto_devengado_1"),
     meta_planificada_2 |-> num(form, "meta_planificada_2"),
     meta_cumplida_2 |-> num(form, "meta_cumplida_2"),
     presupuesto_programado_2 |-> num(form, "presupuesto_programado_2"),
     presupuesto_devengado_2 |-> num(form, "presupuesto_devengado_2"),
     meta_planificada_3 |-> num(form, "meta_planificada_3"),
     meta_cumplida_3 |-> num(form, "meta_cumplida_3"),
     presupuesto_programado_3 |-> num(form, "presupuesto_programado_3"),
     presupuesto_devengado_3 |-> num(form, "presupuesto_devengado_3"),
     meta_planificada_4 |-> num(form, "meta_planificada_4"),
     meta_cumplida_4 |-> num(form, "meta_cumplida_4"),
     presupuesto_programado_4 |-> num(form, "presupuesto_programado_4"),
     presupuesto_devengado_4 |-> num(form, "presupuesto_devengado_4"),
     meta_planificada_anual |-> meta_planificada_anual(form),
     meta_cumplida_anual |-> meta_cumplida_anual(form),
     porcentaje_ejecucion_fisica_anual |-> None,
     presupuesto_programado_anual |-> presupuesto_programado_anual(form),
     presupuesto_devengado_anual |-> presupuesto_devengado_anual(form),
     porcentaje_ejecucion_presupuestaria_anual |-> None,
     created_by |-> None,
     fecha_registro |-> utcnow]

\* the response: a ValueError of int()/float() is not caught (500); the INSERT is
\* tried up to 6 times while the database is locked (lines 279-336)
MaxAttempts == 6

NuevoProyectoResult(form, locked) ==
    IF \E k \in NumericFields : ~parses(or_zero(form_get(form, k))) THEN "error_500"
    ELSE IF locked >= MaxAttempts THEN "db_busy"             \* line 335
    ELSE "saved"                                             \* line 338

\* lines 195-341; locked is the number of attempts that find the database locked
nuevo_proyecto_public(form, locked) ==
    /\ flask_next_id <= MaxFlaskRecords
    /\ IF NuevoProyectoResult(form, locked) = "saved"
       THEN /\ proyectos_simsea' = proyectos_simsea @@ (flask_next_id :> insert_values(form, now))
            /\ flask_next_id' = flask_next_id + 1
            /\ now' = now + 1
       ELSE UNCHANGED <<proyectos_simsea, flask_next_id, now>>
    /\ UNCHANGED <<users, projects, next_id, ss>>
    /\ CallUnchanged /\ WorkerUnchanged /\ RunUnchanged

(***************************************************************************)
(* Specification Spec: two sessions, registration, logins, the form        *)
(* checks, ownership and the two-step delete.  Numeric fields stay at      *)
(* their defaults.                                                         *)
(***************************************************************************)
\* both applications started on empty tables, no browser session has acted
AppInit ==
    /\ users = <<>>
    /\ projects = <<>>
    /\ next_id = 1
    /\ now = 1
    /\ ss = [s \in Sessions |-> InitialSession]
    /\ running = [s \in Sessions |-> None]
    /\ proyectos_simsea = <<>>
    /\ flask_next_id = 1

(***************************************************************************)
(* Flask: a request, step by step                                          *)
(*                                                                         *)
(* nuevo_proyecto_public(form, locked) above is the public create at the   *)
(* granularity of a request.  The actions below follow the worker through  *)
(* one request: the handler up to its first get_conn(), every iteration of *)
(* the loop of get_conn, and the SQL statement of the route.  busy is what *)
(* SQLite answers at that point: TRUE is sqlite3.OperationalError          *)
(* (database is locked).  A response is named by what the browser gets.    *)
(***************************************************************************)
\* werkzeug.security, lines 22, 151 and 355
generate_password_hash(password) == <<"pbkdf2", password>>
check_password_hash(pwhash, password) == pwhash = generate_password_hash(password)

\* get_conn(retries=6, retry_delay=0.5), line 42; time.sleep() is logged in ms
retries == 6
retry_delay == 500

\* line 281: while not inserted and attempts < 6
insert_loop_once_more(inserted, n) == ~inserted /\ n < MaxAttempts + 1
insert_loop(inserted, n) == ~inserted /\ n < MaxAttempts

\* lines 334-339: what the create answers when the loop is left
create_response_saved(inserted) == "saved"
create_response(inserted) ==
    IF inserted THEN "saved"                 \* 'Proyecto guardado correctamente.'
    ELSE "db_busy"                           \* 'No se pudo guardar ... (base de datos ocupada)'

\* line 327: time.sleep(0.5 * attempts)
insert_sleep(n) == 500 * n

\* lines 215-260: int()/float() of a text that is no number raises ValueError,
\* which nothing catches
raises_ValueError(form) == \E k \in NumericFields : ~parses(or_zero(form_get(form, k)))

\* admin_required, lines 174-181
admin_allowed_any(sess) == TRUE
admin_allowed(sess) == sess # None /\ "user_id" \in DOMAIN sess /\ sess.role = "admin"

\* lines 355-363: what login answers once the SELECT has returned
login_response(tbl, username, password) ==
    IF username \in DOMAIN tbl /\ check_password_hash(tbl[username].password_hash, password)
        THEN "login_ok"                      \* 'Inicio de sesión correcto.'
        ELSE "invalid_credentials"           \* 'Credenciales inválidas.'

login_session(sess, tbl, username, password) ==
    IF login_response(tbl, username, password) = "login_ok"
        THEN [user_id |-> tbl[username].id, username |-> username,     \* lines 356-358
              role |-> tbl[username].role]
        ELSE sess

\* the loop counters of a request that starts
StartRequest(req) ==
    /\ pc = "idle"
    /\ request' = req
    /\ attempts' = 0
    /\ attempt' = 0
    /\ conn_sleeps' = <<>>
    /\ insert_sleeps' = <<>>

\* the request ends with this response, which carries no file
Respond(r) ==
    /\ pc' = "idle"
    /\ response' = r
    /\ sent_file' = None

\* the request is not answered yet
Unanswered == UNCHANGED <<response, sent_file>>

WorkerFrame ==
    /\ UNCHANGED <<users, projects, next_id, ss>>
    /\ CallUnchanged /\ RunUnchanged
    /\ UNCHANGED <<flask_users, stdout, PANDAS_AVAILABLE>>

\* POST /proyecto/nuevo, lines 198-281: the form is read; the insert loop is entered
nuevo_proyecto_public_post(form) ==
    /\ flask_next_id <= MaxFlaskRecords
    /\ StartRequest([route |-> "nuevo_proyecto_public", form |-> form])
    /\ IF raises_ValueError(form)
        THEN Respond("error_500_ValueError")
        ELSE /\ pc' = "get_conn"             \* insert_loop(FALSE, 0) holds
             /\ Unanswered
    /\ UNCHANGED <<proyectos_simsea, flask_next_id, now, session>>
    /\ WorkerFrame

\* POST /login, lines 346-349
login_post(username, password) ==
    /\ StartRequest([route |-> "login", username |-> username, password |-> password])
    /\ pc' = "get_conn"
    /\ Unanswered
    /\ UNCHANGED <<proyectos_simsea, flask_next_id, now, session>>
    /\ WorkerFrame

\* lines 367-371
logout ==
    /\ StartRequest([route |-> "logout"])
    /\ session' = None
    /\ Respond("logged_out")
    /\ UNCHANGED <<proyectos_simsea, flask_next_id, now>>
    /\ WorkerFrame

\* admin_required (lines 174-181) in front of a route that opens the database
admin_route(route) ==
    /\ StartRequest([route |-> route])
    /\ IF admin_allowed(session)
        THEN pc' = "get_conn" /\ Unanswered
        ELSE Respond("access_denied")        \* flash and redirect to login
    /\ UNCHANGED <<proyectos_simsea, flask_next_id, now, session>>
    /\ WorkerFrame

\* GET /admin, lines 374-384: the panel reads no table
admin_index ==
    /\ StartRequest([route |-> "admin_index"])
    /\ IF admin_allowed(session)
        THEN Respond("admin_panel")
        ELSE Respond("access_denied")
    /\ UNCHANGED <<proyectos_simsea, flask_next_id, now, session>>
    /\ WorkerFrame

\* lines 386-388, 398-401, 423-426
listar_proyectos_admin == admin_route("listar_proyectos_admin")
export_csv == admin_route("export_csv")
export_excel == admin_route("export_excel")

\* sqlite3.OperationalError reaches the code of the route; slept is the sleep log
\* of the get_conn call that ran last.  Only the insert loop
\* catches it (lines 325-327): it counts the attempt, sleeps and tests the loop
\* condition again; line 334 answers when the loop is left without an insert.
\* login and the admin routes have try/finally only: the exception leaves the view.
raise_OperationalError(slept) ==
    IF request.route = "nuevo_proyecto_public"
        THEN /\ attempts' = attempts + 1
             /\ insert_sleeps' = Append(insert_sleeps, insert_sleep(attempts + 1))
             /\ IF insert_loop(FALSE, attempts + 1)
                 THEN /\ pc' = "get_conn"               \* line 283: a new get_conn()
                      /\ attempt' = 0
                      /\ conn_sleeps' = <<>>
                      /\ Unanswered
                 ELSE /\ Respond(create_response(FALSE))
                      /\ conn_sleeps' = slept
                      /\ UNCHANGED attempt
        ELSE /\ Respond("error_500_OperationalError")
             /\ conn_sleeps' = slept
             /\ UNCHANGED <<attempts, insert_sleeps, attempt>>

\* one iteration of the loop of get_conn, lines 52-62
get_conn(busy) ==
    /\ pc = "get_conn"
    /\ IF ~busy
        THEN /\ pc' = "execute"              \* line 58: return conn
             /\ UNCHANGED <<attempts, attempt, conn_sleeps, insert_sleeps>>
             /\ Unanswered
        ELSE IF attempt + 1 < retries
            THEN /\ attempt' = attempt + 1   \* lines 59-61
                 /\ conn_sleeps' = Append(conn_sleeps, retry_delay)
                 /\ UNCHANGED <<pc, attempts, insert_sleeps>>
                 /\ Unanswered
            ELSE raise_OperationalError(Append(conn_sleeps, retry_delay))   \* lines 61-62
    /\ UNCHANGED <<request, proyectos_simsea, flask_next_id, now, session>>
    /\ WorkerFrame

\* SELECT * FROM proyectos_simsea and fetchall(), lines 405-406 and 430-431:
\* the rows in the order of their ids, each with its id
fetchall(tbl) ==
    [i \in 1..Cardinality(DOMAIN tbl) |-> [id |-> i] @@ tbl[i]]

\* csv.writer, lines 412-416 and 452-455: the names of the columns of the first
\* row, then the values of every row
csv_getvalue(rows) ==
    <<DOMAIN rows[1]>> \o [i \in DOMAIN rows |-> rows[i]]

\* send_file(output, mimetype=..., as_attachment=True, download_name=...)
send_file(output, mimetype, download_name) ==
    [output |-> output, mimetype |-> mimetype, download_name |-> download_name]

\* lines 412-420
export_csv_file(tbl) ==
    send_file([format |-> "csv", lines |-> csv_getvalue(fetchall(tbl))],
              "text/csv", "simsea_proyectos.csv")

\* lines 437-460: a workbook with the sheet 'Proyectos' when pandas was
\* imported, the CSV text otherwise
export_excel_file(tbl, pandas_available) ==
    IF pandas_available
        THEN send_file([format |-> "xlsx", sheet_name |-> "Proyectos",
                        lines |-> csv_getvalue(fetchall(tbl))],
                       "application/vnd.openxmlformats-officedocument.spreadsheetml.sheet",
                       "simsea_proyectos.xlsx")
        ELSE send_file([format |-> "csv", lines |-> csv_getvalue(fetchall(tbl))],
                       "text/csv", "simsea_proyectos.csv")

\* the request ends with a download
RespondFile(file) ==
    /\ pc' = "idle"
    /\ response' = "download"
    /\ sent_file' = Some(file)

\* the statement of the route on the open connection, and the rest of the view
execute(busy) ==
    /\ pc = "execute"
    /\ IF busy
        THEN /\ raise_OperationalError(conn_sleeps)
             /\ UNCHANGED <<proyectos_simsea, flask_next_id, now, session>>
        ELSE /\ UNCHANGED <<attempts, attempt, conn_sleeps, insert_sleeps>>
             /\ IF request.route = "nuevo_proyecto_public"
                 THEN /\ proyectos_simsea' =                      \* lines 322-324
                            proyectos_simsea @@
                                (flask_next_id :> insert_values(request.form, now))
                      /\ flask_next_id' = flask_next_id + 1
                      /\ now' = now + 1
                      /\ Respond(create_response(TRUE))           \* line 338
                      /\ UNCHANGED session
                 ELSE IF request.route = "login"
                 THEN /\ session' = login_session(session, flask_users,
                                                  request.username, request.password)
                      /\ Respond(login_response(flask_users,
                                                request.username, request.password))
                      /\ UNCHANGED <<proyectos_simsea, flask_next_id, now>>
                 ELSE /\ IF request.route = "listar_proyectos_admin"
                            THEN Respond("project_list")
                         ELSE IF fetchall(proyectos_simsea) = <<>>
                            THEN Respond("no_data")               \* lines 408-410, 433-435
                         ELSE IF request.route = "export_csv"
                            THEN RespondFile(export_csv_file(proyectos_simsea))
                            ELSE RespondFile(export_excel_file(proyectos_simsea,
                                                               PANDAS_AVAILABLE))
                      /\ UNCHANGED <<proyectos_simsea, flask_next_id, now, session>>
    /\ UNCHANGED request
    /\ WorkerFrame

\* init_db_once, lines 64-159: the tables are created if they do not exist; the
\* default admin is inserted when users has no row, and the notice is printed
EmptyTable == <<>>
default_admin == [id |-> 1, password_hash |-> generate_password_hash("admin"), role |-> "admin"]

init_db_once_always(tbl) == tbl @@ ("admin" :> default_admin)
init_db_once_users(tbl) ==
    IF DOMAIN tbl = {} THEN ("admin" :> default_admin)    \* lines 148-155
    ELSE tbl

init_db_once_stdout(tbl, out) ==
    IF DOMAIN tbl = {} THEN Append(out, "[AVISO] Usuario admin creado por defecto")
    ELSE out

\* line 162: the app is started, or started again while it handles no request;
\* pc = "stopped" is the store on disk before the app has run
init_db_once ==
    /\ pc \in {"stopped", "idle"}
    /\ pc' = "idle"
    /\ flask_users' = init_db_once_users(flask_users)
    /\ stdout' = init_db_once_stdout(flask_users, stdout)
    /\ UNCHANGED <<session, request, attempts, attempt, conn_sleeps, insert_sleeps,
                   response, sent_file, PANDAS_AVAILABLE>>
    /\ UNCHANGED <<users, projects, next_id, ss, now, proyectos_simsea, flask_next_id>>
    /\ CallUnchanged /\ RunUnchanged

\* no request has arrived
RequestInit ==
    /\ session = None
    /\ request = None
    /\ pc = "idle"
    /\ attempts = 0
    /\ attempt = 0
    /\ conn_sleeps = <<>>
    /\ insert_sleeps = <<>>
    /\ response = "none"
    /\ sent_file = None

\* the first start of the app: init_db_once has found the table users empty
WorkerInit ==
    /\ flask_users = init_db_once_users(EmptyTable)
    /\ stdout = init_db_once_stdout(EmptyTable, <<>>)
    /\ PANDAS_AVAILABLE = TRUE
    /\ RequestInit

Init ==
    /\ AppInit
    /\ percent_call = None
    /\ WorkerInit

Password == "pw"
Passwords == {Password, "bad"}

\* what is typed in this specification: s1 is alice's browser; s2 is bob's, and
\* the one where admin credentials and invalid field values are typed
UserOf(s) == IF s = "s1" THEN "alice" ELSE "bob"

NameP == <<"P">>
GoodMail == <<"a", "@", "b", ".", "c">>
BadMail == <<"a", "@", "b">>

Edits(s) ==
    IF s = "s1"
    THEN {<<"nombre_proyecto", NameP>>}
    ELSE {<<"admin_user_input", ADMIN_USER>>, <<"admin_pwd_input", ADMIN_PASSWORD>>,
          <<"correo_responsable", BadMail>>, <<"fecha_fin", Today - 1>>}

Next ==
    \E s \in Sessions :
        \/ \E e \in Edits(s) : SetField(s, e[1], e[2])
        \/ \E p2 \in Passwords : Register(s, UserOf(s), Password, p2)
        \/ \E p \in Passwords : Login(s, UserOf(s), p)
        \/ Save(s)
        \/ limpiar_todo(s)
        \/ \E i \in 0..MaxRecords : Search(s, i)
        \/ Update(s)
        \/ MarkDelete(s)
        \/ ConfirmDelete(s)
        \/ CancelDelete(s)

Spec == Init /\ [][Next]_vars

(***************************************************************************)
(* Specifications of the computed columns.  One browser session (s1, alice) *)
(* registers, logs in, fills the form, saves, reloads a row and updates it; *)
(* the Flask form is posted with raw texts.  Each specification types into  *)
(* the fields its columns are computed from.                                *)
(***************************************************************************)
Locked == {0, 1, MaxAttempts}

\* raw texts a numeric form field is posted with
RawNumbers(values) == {None, Str(EmptyText), Str(<<"x">>)} \cup {Num(n) : n \in values}

Fill(edits, forms) ==
    \/ SetField("s1", "nombre_proyecto", NameP)
    \/ \E e \in edits : SetField("s1", e[1], e[2])
    \/ Register("s1", UserOf("s1"), Password, Password)
    \/ Login("s1", UserOf("s1"), Password)
    \/ next_id <= MaxMetricRecords /\ Save("s1")
    \/ \E i \in 1..MaxMetricRecords : Search("s1", i)
    \/ Update("s1")
    \/ \E form \in forms, locked \in Locked : nuevo_proyecto_public(form, locked)

\* beneficiary counts (widgets with min_value=0)
BenefEdits ==
    {<<"beneficiarios_hombres", v>> : v \in 0..MaxVal}
        \cup {<<"beneficiarios_mujeres", v>> : v \in 0..1}
        \cup {<<"beneficiarios_glbti", v>> : v \in 0..1}
BenefForms ==
    [beneficiarios_hombres : RawNumbers(0..MaxVal),
     beneficiarios_mujeres : {None, Num(1)},
     beneficiarios_glbti : {Str(EmptyText), Num(1)}]
NextBenef == Fill(BenefEdits, BenefForms)
SpecBenef == Init /\ [][NextBenef]_vars

\* quarterly targets and budgets
QuarterEdits ==
    {<<"meta_plan_1", v>> : v \in 0..MaxVal} \cup {<<"meta_cum_1", v>> : v \in 0..1}
QuarterForms ==
    [meta_planificada_1 : {None, Str(<<"x">>), Num(MaxVal)},
     meta_cumplida_1 : {Str(EmptyText), Num(1)},
     presupuesto_programado_2 : {None, Num(MaxVal)},
     presupuesto_devengado_2 : {None, Num(1)}]
NextQuarter == Fill(QuarterEdits, QuarterForms)
SpecQuarter == Init /\ [][NextQuarter]_vars

\* totals the two execution percentages are computed from (widgets without
\* min_value; the Flask form posts any text)
PctEdits ==
    {<<"presupuesto_programado_total", v>> : v \in {-MaxVal, 0, MaxVal}}
        \cup {<<"presupuesto_devengado_total", v>> : v \in 0..1}
        \cup {<<"meta_proyecto", v>> : v \in {0, MaxVal + 1}}
        \cup {<<"total_meta_cumplida_acumulada", v>> : v \in 0..1}
PctForms ==
    [presupuesto_programado_total : {None, Str(<<"x">>), Num(-MaxVal), Num(MaxVal)},
     presupuesto_devengado_total : {Str(EmptyText), Num(1)},
     meta_proyecto : {None, Num(MaxVal + 1)},
     total_meta_cumplida_acumulada : {Num(1)}]
NextPct == Fill(PctEdits, PctForms)
SpecPct == Init /\ [][NextPct]_vars

(***************************************************************************)
(* Claims checked under Spec                                               *)
(***************************************************************************)
NameGiven(st) == st.nombre_proyecto # EmptyText /\ strip(st.nombre_proyecto) # EmptyText
DatesOrdered(st) == st.fecha_fin >= st.fecha_inicio
MailAcceptable(st) == st.correo_responsable = EmptyText \/ is_valid_email(st.correo_responsable)
Selected(st) == Truthy(st.edit_id) /\ st.edit_id[2] \in DOMAIN projects
Marked(st) == Truthy(st.pending_delete_id) /\ st.pending_delete_id[2] \in DOMAIN projects

\* C1: every step that changes or removes a row of projects is an update or a
\* delete confirmation run by a session that has admin access or whose active
\* user is the usuario stored in that row before the step.
C1_OwnershipGuard ==
    [][\A i \in DOMAIN projects :
          (i \notin DOMAIN projects' \/ projects'[i] # projects[i])
          => \E s \in Sessions :
                /\ Update(s) \/ ConfirmDelete(s)
                /\ is_admin(ss[s]) \/ ss[s].sidebar_usuario = projects[i].usuario]_vars

\* C1 witness: a logged-in session without admin access has selected a row created
\* by someone else, passes the form checks, and its update is refused.
C1_Witness ==
    \E s \in Sessions :
        /\ Selected(ss[s])
        /\ ss[s].sidebar_usuario # ""
        /\ ~is_admin(ss[s])
        /\ projects[ss[s].edit_id[2]].usuario # ss[s].sidebar_usuario
        /\ UpdateResult(ss[s], projects) = "update_denied"
        /\ UpdateTable(ss[s], projects) = projects

\* C2 as stated: an admin's update with a non-empty name and ordered dates, and an
\* admin's delete confirmation, always take effect on the existing row.
C2_AdminAlwaysMutates ==
    \A s \in Sessions :
        LET st == ss[s] IN
        /\ (is_admin(st) /\ Selected(st) /\ NameGiven(st) /\ DatesOrdered(st))
           => /\ UpdateResult(st, projects) = "update_ok"
              /\ UpdateTable(st, projects)[st.edit_id[2]].nombre_proyecto = st.nombre_proyecto
        /\ (is_admin(st) /\ Marked(st))
           => /\ ConfirmResult(st, projects) = "delete_ok"
              /\ st.pending_delete_id[2] \notin DOMAIN ConfirmTable(st, projects)

\* C2 amended: the admin's update takes effect when, besides the name and the
\* dates, the session has an active user and the responsible's e-mail is empty or
\* well formed; the admin's delete confirmation always takes effect.
C2_AdminMutatesWhenLoggedIn ==
    \A s \in Sessions :
        LET st == ss[s] IN
        /\ (is_admin(st) /\ Selected(st) /\ NameGiven(st) /\ DatesOrdered(st)
               /\ st.sidebar_usuario # "" /\ MailAcceptable(st))
           => /\ UpdateResult(st, projects) = "update_ok"
              /\ UpdateTable(st, projects)[st.edit_id[2]].nombre_proyecto = st.nombre_proyecto
              /\ UpdateTable(st, projects)[st.edit_id[2]].fecha_fin = isoformat(st.fecha_fin)
              /\ UpdateSession(st, projects).edit_id = None
        /\ (is_admin(st) /\ Marked(st))
           => /\ ConfirmResult(st, projects) = "delete_ok"
              /\ st.pending_delete_id[2] \notin DOMAIN ConfirmTable(st, projects)

\* C2 witness: an admin session with an active user holds a valid form for a row
\* that another user created, and has marked a row that another user created.
C2_Witness ==
    \E s \in Sessions :
        LET st == ss[s] IN
        /\ is_admin(st) /\ Selected(st) /\ NameGiven(st) /\ DatesOrdered(st)
        /\ st.sidebar_usuario # "" /\ MailAcceptable(st)
        /\ projects[st.edit_id[2]].usuario # st.sidebar_usuario
        /\ Marked(st)
        /\ projects[st.pending_delete_id[2]].usuario # st.sidebar_usuario

\* C3 as stated: no step changes the usuario or the created_at of a row that
\* stays in projects.
C3_ProvenanceUnchanged ==
    [][\A i \in DOMAIN projects \cap DOMAIN projects' :
          /\ projects'[i].usuario = projects[i].usuario
          /\ projects'[i].created_at = projects[i].created_at]_vars

\* C4: a row leaves projects only in a confirm step of a session whose
\* pending_delete_id is that row's id; pending_delete_id becomes an id only in a
\* mark step of that session, which sets it to the selected id; mark and cancel
\* steps leave projects as it is.
C4_TwoPhaseDelete ==
    [][/\ \A i \in DOMAIN projects :
              i \notin DOMAIN projects'
              => \E s \in Sessions : ConfirmDelete(s) /\ ss[s].pending_delete_id = IdOf(i)
       /\ \A s \in Sessions :
              (Truthy(ss'[s].pending_delete_id)
                    /\ ss'[s].pending_delete_id # ss[s].pending_delete_id)
              => MarkDelete(s) /\ ss'[s].pending_delete_id = ss[s].edit_id
       /\ \A s \in Sessions :
              (MarkDelete(s) \/ CancelDelete(s)) => projects' = projects]_vars

\* C4 witness: a row was inserted and later removed, while another row is marked
\* in some session and still stored.
C4_Witness ==
    /\ \E i \in 1..(next_id - 1) : i \notin DOMAIN projects
    /\ \E s \in Sessions : Marked(ss[s])

\* C5 as stated: a confirm click, whatever its outcome, and a cancel click leave
\* pending_delete_id empty; a mark click on a selection leaves it at the selected id.
C5_PendingClearedByConfirm ==
    \A s \in Sessions :
        LET st == ss[s] IN
        /\ Truthy(st.pending_delete_id)
           => /\ ConfirmSession(st, projects).pending_delete_id = None
              /\ CancelSession(st).pending_delete_id = None
        /\ Truthy(st.edit_id) => MarkSession(st).pending_delete_id = st.edit_id

\* C6 as stated: an update that passes the form checks, or a delete confirmation,
\* whose target id is not in projects reports not-found.
C6_MissingTargetNotFound ==
    \A s \in Sessions :
        LET st == ss[s] IN
        /\ (Truthy(st.edit_id) /\ st.edit_id[2] \notin DOMAIN projects /\ ~UpdateErrors(st))
           => UpdateResult(st, projects) \notin {"update_ok", "update_denied"}
        /\ (Truthy(st.pending_delete_id) /\ st.pending_delete_id[2] \notin DOMAIN projects)
           => ConfirmResult(st, projects) = "delete_not_found"

(***************************************************************************)
(* Claims checked under SpecBenef, SpecQuarter and SpecPct                 *)
(***************************************************************************)
\* C7: in every row of projects and of proyectos_simsea the stored total of
\* beneficiaries is the sum of the row's three beneficiary counts.
C7_TotalBeneficiaries ==
    /\ \A i \in DOMAIN projects :
          projects[i].total_beneficiarios =
              projects[i].beneficiarios_hombres + projects[i].beneficiarios_mujeres
                  + projects[i].beneficiarios_glbti
    /\ \A i \in DOMAIN proyectos_simsea :
          proyectos_simsea[i].total_beneficiarios =
              proyectos_simsea[i].beneficiarios_hombres + proyectos_simsea[i].beneficiarios_mujeres
                  + proyectos_simsea[i].beneficiarios_glbti

\* C7 witness: a Flask row and a Streamlit row with all three counts positive are
\* stored, and the session's update of the Streamlit row is accepted and changes
\* its total.
C7_Witness ==
    /\ \E i \in DOMAIN proyectos_simsea :
          /\ proyectos_simsea[i].beneficiarios_hombres > 0
          /\ proyectos_simsea[i].beneficiarios_mujeres > 0
          /\ proyectos_simsea[i].beneficiarios_glbti > 0
    /\ \E i \in DOMAIN projects :
          /\ projects[i].beneficiarios_hombres > 0
          /\ projects[i].beneficiarios_mujeres > 0
          /\ projects[i].beneficiarios_glbti > 0
          /\ ss["s1"].edit_id = IdOf(i)
          /\ UpdateResult(ss["s1"], projects) = "update_ok"
          /\ UpdateTable(ss["s1"], projects)[i].total_beneficiarios
                # projects[i].total_beneficiarios

\* C8 as stated: in every stored row each of the four annual values is the sum of
\* the row's four quarterly values.
C8_AnnualIsQuarterlySum ==
    /\ \A i \in DOMAIN projects :
          LET r == projects[i] IN
          /\ r.meta_plan_anual = r.meta_plan_1 + r.meta_plan_2 + r.meta_plan_3 + r.meta_plan_4
          /\ r.meta_cum_anual = r.meta_cum_1 + r.meta_cum_2 + r.meta_cum_3 + r.meta_cum_4
          /\ r.pres_prog_anual = r.pres_prog_1 + r.pres_prog_2 + r.pres_prog_3 + r.pres_prog_4
          /\ r.pres_dev_anual = r.pres_dev_1 + r.pres_dev_2 + r.pres_dev_3 + r.pres_dev_4
    /\ \A i \in DOMAIN proyectos_simsea :
          LET r == proyectos_simsea[i] IN
          /\ r.meta_planificada_anual =
                r.meta_planificada_1 + r.meta_planificada_2 + r.meta_planificada_3
                    + r.meta_planificada_4
          /\ r.meta_cumplida_anual =
                r.meta_cumplida_1 + r.meta_cumplida_2 + r.meta_cumplida_3 + r.meta_cumplida_4
          /\ r.presupuesto_programado_anual =
                r.presupuesto_programado_1 + r.presupuesto_programado_2
                    + r.presupuesto_programado_3 + r.presupuesto_programado_4
          /\ r.presupuesto_devengado_anual =
                r.presupuesto_devengado_1 + r.presupuesto_devengado_2
                    + r.presupuesto_devengado_3 + r.presupuesto_devengado_4

\* the annual physical-execution percentage a row stores: NULL in a row whose
\* table has no such column
AnnualExecutionPct(r) ==
    IF "porcentaje_ejecucion_fisica_anual" \in DOMAIN r
    THEN r.porcentaje_ejecucion_fisica_anual
    ELSE None

\* C9 as stated: a row created with a positive sum of quarterly planned targets
\* stores 100 x (sum of quarterly achieved) / (sum of quarterly planned) as its
\* annual physical-execution percentage.
C9_AnnualExecutionPct ==
    /\ \A i \in DOMAIN proyectos_simsea :
          LET r == proyectos_simsea[i]
              planned == r.meta_planificada_1 + r.meta_planificada_2 + r.meta_planificada_3
                            + r.meta_planificada_4
              achieved == r.meta_cumplida_1 + r.meta_cumplida_2 + r.meta_cumplida_3
                            + r.meta_cumplida_4
          IN  planned > 0 => AnnualExecutionPct(r) = Rat(100 * achieved, planned)
    /\ \A s \in Sessions :
          LET st == ss[s]
              r == build_row_from_inputs(st, st.sidebar_usuario, now)
              planned == st.meta_plan_1 + st.meta_plan_2 + st.meta_plan_3 + st.meta_plan_4
              achieved == st.meta_cum_1 + st.meta_cum_2 + st.meta_cum_3 + st.meta_cum_4
          IN  (SaveResult(st) = "save_ok" /\ planned > 0)
              => AnnualExecutionPct(r) = Rat(100 * achieved, planned)

\* the stored percentage pct is 100 x numerator / denominator to two decimals
IsPercentOf(pct, numerator, denominator) ==
    /\ pct # None
    /\ 200 * Abs(pct[1] * denominator - 100 * numerator * pct[2])
          <= pct[2] * Abs(denominator)

\* C10 as stated: in every stored row the budget-execution percentage is
\* 100 x disbursed / budgeted when budgeted > 0 and absent for every other
\* budgeted total, and the physical-execution percentage is
\* 100 x achieved / target when target > 0 and absent otherwise.
C10_ExecutionPct ==
    /\ \A i \in DOMAIN projects :
          LET r == projects[i] IN
          /\ IF r.presupuesto_programado_total > 0
             THEN IsPercentOf(r.porc_ejecucion_presupuestaria,
                              r.presupuesto_devengado_total, r.presupuesto_programado_total)
             ELSE r.porc_ejecucion_presupuestaria = None
          /\ IF r.meta_proyecto > 0
             THEN IsPercentOf(r.porc_ejecucion_fisica,
                              r.total_meta_cumplida_acumulada, r.meta_proyecto)
             ELSE r.porc_ejecucion_fisica = None
    /\ \A i \in DOMAIN proyectos_simsea :
          LET r == proyectos_simsea[i] IN
          /\ IF r.presupuesto_programado_total > 0
             THEN IsPercentOf(r.porcentaje_ejecucion_presupuestaria,
                              r.presupuesto_devengado_total, r.presupuesto_programado_total)
             ELSE r.porcentaje_ejecucion_presupuestaria = None
          /\ IF r.meta_proyecto > 0
             THEN IsPercentOf(r.porcentaje_ejecucion_fisica,
                              r.total_meta_cumplida_acumulada, r.meta_proyecto)
             ELSE r.porcentaje_ejecucion_fisica = None

(***************************************************************************)
(* percent() called with any Python value.  A value is None, a text        *)
(* (Str, Num) or the number Float(x).                                      *)
(***************************************************************************)
Float(x) == <<"float", x>>

\* float(v) raises TypeError on None and ValueError on a text that is no number
float_raises(v) == v = None \/ v[1] = "str"
float_(v) == v[2]

\* lines 65-74 with the try/except: every exception becomes None
percent_py(numerator, denominator) ==
    IF denominator = None THEN None                                \* lines 67-68
    ELSE IF float_raises(denominator) THEN None                    \* line 69, 73-74
    ELSE IF float_(denominator) = 0 THEN None                      \* lines 70-71
    ELSE IF float_raises(numerator) THEN None                      \* line 72, 73-74
    ELSE percent(float_(numerator), float_(denominator))           \* line 72

AppUnchanged ==
    UNCHANGED <<users, projects, next_id, now, ss, running, proyectos_simsea, flask_next_id>>

PyValues ==
    {None, Str(<<"x">>), Num(MaxVal), Float(0), Float(-MaxVal), Float(1), Float(MaxVal + 1),
     Float(50), Float(200)}

InitPercent ==
    /\ AppInit
    /\ WorkerInit
    /\ percent_call \in [numerator : PyValues, denominator : PyValues,
                         returned : {FALSE}, value : {None}]

CallPercent ==
    /\ ~percent_call.returned
    /\ percent_call' = [percent_call EXCEPT
            !.returned = TRUE,
            !.value = percent_py(percent_call.numerator, percent_call.denominator)]
    /\ AppUnchanged /\ WorkerUnchanged

NextPercent == CallPercent
SpecPercent == InitPercent /\ [][NextPercent]_vars

\* C11: a call of percent returns: absent when the denominator is None, no number
\* or zero; for numbers with a non-zero denominator 100 x numerator / denominator
\* to two decimals; so 0 for a zero numerator and 25 for percent(50, 200).
C11_PercentTotal ==
    (percent_call # None /\ percent_call.returned) =>
        LET n == percent_call.numerator
            d == percent_call.denominator
            r == percent_call.value
        IN  /\ (d = None \/ float_raises(d) \/ float_(d) = 0) => r = None
            /\ (~(d = None \/ float_raises(d) \/ float_(d) = 0) /\ ~float_raises(n))
               => /\ IsPercentOf(r, float_(n), float_(d))
                  /\ 100 % r[2] = 0
            /\ (n = Float(0) /\ ~(d = None \/ float_raises(d) \/ float_(d) = 0))
               => r = <<0, 1>>
            /\ (n = Float(50) /\ d = Float(200)) => r = <<25, 1>>

\* C11 witness: percent(1, 3) has returned the rounded 33.33
C11_Witness ==
    /\ percent_call # None /\ percent_call.returned
    /\ percent_call.numerator = Float(1)
    /\ percent_call.denominator = Float(MaxVal + 1)
    /\ percent_call.value = <<3333, 100>>

(***************************************************************************)
(* Specification SpecDates: the two dates and the project name.  The       *)
(* Streamlit date widgets hold dates; the Flask form posts any text.       *)
(***************************************************************************)
Blank == <<" ">>

DateEdits ==
    {<<"nombre_proyecto", Blank>>}
        \cup {<<"fecha_inicio", d>> : d \in {Today, Today + 1}}
        \cup {<<"fecha_fin", d>> : d \in {Today - 1, Today, Today + MaxVal}}
DateForms ==
    [fecha_inicio : {None, Str(EmptyText), Str(<<"x">>), isoformat(Today), isoformat(Today + 1)},
     fecha_finalizacion : {None, Str(<<"x">>), isoformat(Today - 1), isoformat(Today + MaxVal)}]
NextDates == Fill(DateEdits, DateForms)
SpecDates == Init /\ [][NextDates]_vars

\* a posted date text that datetime.fromisoformat reads
WellFormedDate(v) == v # None /\ v[1] = "iso"

\* C12: every stored row holds as its duration the days from its start date to its
\* end date when both are present and well formed, and no duration otherwise; a
\* row whose end date is before its start date holds a negative duration.
C12_Duration ==
    /\ \A i \in DOMAIN proyectos_simsea :
          LET r == proyectos_simsea[i] IN
          IF WellFormedDate(r.fecha_inicio) /\ WellFormedDate(r.fecha_finalizacion)
          THEN /\ r.duracion_proyecto = Some(r.fecha_finalizacion[2] - r.fecha_inicio[2])
               /\ r.fecha_finalizacion[2] < r.fecha_inicio[2] => r.duracion_proyecto[1] < 0
          ELSE r.duracion_proyecto = None
    /\ \A i \in DOMAIN projects :
          LET r == projects[i] IN
          /\ WellFormedDate(r.fecha_inicio) /\ WellFormedDate(r.fecha_fin)
          /\ r.duracion_dias = Some(r.fecha_fin[2] - r.fecha_inicio[2])
          /\ r.fecha_fin[2] < r.fecha_inicio[2] => r.duracion_dias[1] < 0

\* C12 witness: a Flask row posted with a malformed end date holds no duration
\* while a Streamlit row holds a positive one.
C12_Witness ==
    /\ \E i \in DOMAIN proyectos_simsea :
          /\ WellFormedDate(proyectos_simsea[i].fecha_inicio)
          /\ proyectos_simsea[i].fecha_finalizacion = Str(<<"x">>)
          /\ proyectos_simsea[i].duracion_proyecto = None
    /\ \E i \in DOMAIN projects : projects[i].duracion_dias = Some(MaxVal)

\* C13: a save or an update of a form whose name is empty or blank, or whose end
\* date is before its start date, leaves every row of projects and the session's
\* form and selection as they are.
C13_InvalidFormRejected ==
    \A s \in Sessions :
        LET st == ss[s] IN
        (st.nombre_proyecto = EmptyText \/ strip(st.nombre_proyecto) = EmptyText
            \/ st.fecha_fin < st.fecha_inicio)
        => /\ SaveTable(ScriptTop(st), projects, next_id, now) = projects
           /\ SaveSession(ScriptTop(st)) = st
           /\ UpdateTable(ScriptTop(st), projects) = projects
           /\ UpdateSession(ScriptTop(st), projects) = st

\* C13 witness: a logged-in session has selected its own row and holds a blank
\* name with ordered dates; save and update are both refused.
C13_Witness ==
    \E s \in Sessions :
        LET st == ss[s] IN
        /\ st.sidebar_usuario # ""
        /\ Truthy(st.edit_id) /\ st.edit_id[2] \in DOMAIN projects
        /\ projects[st.edit_id[2]].usuario = st.sidebar_usuario
        /\ st.nombre_proyecto = Blank
        /\ st.fecha_fin >= st.fecha_inicio
        /\ SaveResult(st) = "save_invalid"
        /\ UpdateResult(st, projects) = "update_invalid"

(***************************************************************************)
(* Specification for the Flask submission: the texts a browser or a script *)
(* can post, with a store that is never locked, next to Streamlit saves    *)
(* with and without coordinates                                            *)
(***************************************************************************)
PostedForms ==
    [nombre_proyecto : {None, Str(Blank), Str(NameP)},
     beneficiarios_hombres : {None, Str(<<"x">>), Num(1)},
     presupuesto_devengado_total : {Str(EmptyText), Str(<<"x">>)},
     latitud : {None, Str(<<"x">>), Num(1)}]

NextForm ==
    \/ SetField("s1", "nombre_proyecto", NameP)
    \/ \E v \in {0, 1} : SetField("s1", "latitud", v)
    \/ Register("s1", UserOf("s1"), Password, Password)
    \/ Login("s1", UserOf("s1"), Password)
    \/ next_id <= MaxMetricRecords /\ Save("s1")
    \/ \E form \in PostedForms : nuevo_proyecto_public_post(form)
    \/ get_conn(FALSE)
    \/ execute(FALSE)

SpecForm == Init /\ [][NextForm]_vars

\* the last request was a public create, and it has been answered
CreateAnswered ==
    /\ request # None
    /\ request.route = "nuevo_proyecto_public"
    /\ pc = "idle"

\* the text of a posted field, trimmed; missing counts as empty
Trimmed(form, key) == f(form, key)

Unparseable(form) == {k \in NumericFields : ~parses(or_zero(form_get(form, k)))}

\* the row the last create inserted
LastInserted == proyectos_simsea[flask_next_id - 1]

\* C15: a Flask public create with a count or money field whose text cannot be
\* parsed completes like one where the field is missing: it is answered as
\* saved and the stored value of the field is 0; no parse error is the answer.
C15_UnparseableNumberStoresZero ==
    (CreateAnswered /\ Unparseable(request.form) # {}) =>
        /\ response = "saved"
        /\ \A k \in Unparseable(request.form) : LastInserted[k] = 0

\* a created record has no coordinates when neither latitud nor longitud holds a
\* number: in Flask the field is missing, empty or no number; in Streamlit the
\* two inputs are at their widget value 0.0, the form has no way to leave them out
NoCoordinate(v) == v = None \/ ~parses(v)

\* C16: a record created without coordinates is stored with latitud and
\* longitud null, not 0, in Flask and in Streamlit alike, while its missing
\* counts and money amounts are stored as 0.
C16_MissingCoordinatesStoredNull ==
    /\ (CreateAnswered /\ response = "saved"
            /\ NoCoordinate(form_get(request.form, "latitud"))
            /\ NoCoordinate(form_get(request.form, "longitud"))) =>
          /\ LastInserted.latitud = None
          /\ LastInserted.longitud = None
          /\ \A k \in NumericFields :
                form_get(request.form, k) = None => LastInserted[k] = 0
    /\ \A s \in Sessions :
          LET st == ScriptTop(ss[s]) IN
          (SaveResult(st) = "save_ok"
                /\ st.latitud = DEFAULTS.latitud /\ st.longitud = DEFAULTS.longitud) =>
             LET row == SaveTable(st, projects, next_id, now)[next_id] IN
             /\ row.latitud = None
             /\ row.longitud = None
             /\ row.beneficiarios_hombres = 0

(***************************************************************************)
(* Specifications for the Flask store under contention: every attempt to   *)
(* connect and every statement may find the database locked                *)
(***************************************************************************)
RetryForms == {[nombre_proyecto |-> Str(NameP)],
               [nombre_proyecto |-> Str(NameP), meta_proyecto |-> Str(<<"x">>)]}
FlaskUsernames == {"admin", "nobody"}
FlaskPasswords == {"admin", "bad"}

Worker ==
    \/ \E busy \in BOOLEAN : get_conn(busy)
    \/ \E busy \in BOOLEAN : execute(busy)

NextRetry ==
    \/ \E form \in RetryForms : nuevo_proyecto_public_post(form)
    \/ \E username \in FlaskUsernames, password \in FlaskPasswords :
            login_post(username, password)
    \/ logout
    \/ admin_index
    \/ listar_proyectos_admin
    \/ export_csv
    \/ export_excel
    \/ \E busy \in BOOLEAN : get_conn(busy)
    \/ \E busy \in BOOLEAN : execute(busy)

SpecRetry == Init /\ [][NextRetry]_vars

\* the worker thread that took a request keeps running: time.sleep() returns and
\* SQLite answers every call
SpecRetryFair == SpecRetry /\ WF_vars(Worker)

CreateInFlight == pc # "idle" /\ request.route = "nuevo_proyecto_public"

\* C17: a Flask public create terminates under every pattern of busy errors:
\* it starts at most 6 insert attempts, each with at most 6 attempts to connect,
\* and is then answered, with success or with 'try again later'.
C17_CreateTerminates ==
    /\ [](CreateInFlight => (attempts + 1 <= MaxAttempts /\ attempt + 1 <= retries))
    /\ [](attempts <= MaxAttempts)
    /\ CreateInFlight ~> (CreateAnswered /\ response \in {"saved", "db_busy"})

\* every insert attempt found the store busy, and the create was answered
C17_Witness ==
    /\ CreateAnswered
    /\ response = "db_busy"
    /\ attempts = MaxAttempts
    /\ Len(insert_sleeps) = MaxAttempts

StrictlyIncreasing(seq) == \A i \in 1..(Len(seq) - 1) : seq[i] < seq[i + 1]

\* C18: within one write the wait before each retry is strictly longer than the
\* wait before the previous one, among the retries of one get_conn call and
\* among the retries of the insert loop.
C18_BackoffIncreases ==
    /\ StrictlyIncreasing(conn_sleeps)
    /\ StrictlyIncreasing(insert_sleeps)

\* C19: every Flask operation that opens the store (public create, login,
\* project list, CSV export, Excel export) ends with a handled, user-visible
\* failure when the store stays busy past the bounded retries: no request is
\* answered with the unhandled sqlite3.OperationalError.
C19_BusyIsHandled ==
    pc = "idle" => response # "error_500_OperationalError"

\* C20: in Flask and in Streamlit a failed login has the same observable
\* outcome, message and session state, whether the user name is unknown or the
\* password is wrong.
C20_FailedLoginIndistinguishable ==
    /\ \A known \in DOMAIN flask_users, unknown \in FlaskUsernames \ DOMAIN flask_users,
          password \in FlaskPasswords :
            login_response(flask_users, known, password) # "login_ok" =>
                /\ login_response(flask_users, known, password)
                        = login_response(flask_users, unknown, password)
                /\ login_session(session, flask_users, known, password)
                        = login_session(session, flask_users, unknown, password)
    /\ \A s \in Sessions, known \in DOMAIN users, unknown \in Usernames \ DOMAIN users,
          password \in Passwords :
            LET st == ScriptTop(ss[s]) IN
            LoginResult(users, known, password) # "login_ok" =>
                /\ LoginResult(users, known, password)
                        = LoginResult(users, unknown, password)
                /\ LoginSession(st, users, known, password)
                        = LoginSession(st, users, unknown, password)

(***************************************************************************)
(* Specification for the start of the Flask app: the store on disk holds   *)
(* any users table, the app is started and started again between requests  *)
(***************************************************************************)
changed_admin == [id |-> 1, password_hash |-> generate_password_hash("bad"), role |-> "admin"]
plain_user == [id |-> 2, password_hash |-> generate_password_hash("bad"), role |-> "user"]

BootTables ==
    {EmptyTable,
     ("admin" :> default_admin),
     ("admin" :> changed_admin),
     ("nobody" :> plain_user),
     ("admin" :> changed_admin) @@ ("nobody" :> plain_user)}

InitBoot ==
    /\ AppInit
    /\ percent_call = None
    /\ flask_users \in BootTables
    /\ stdout = <<>>
    /\ PANDAS_AVAILABLE = TRUE
    /\ session = None
    /\ request = None
    /\ pc = "stopped"
    /\ attempts = 0
    /\ attempt = 0
    /\ conn_sleeps = <<>>
    /\ insert_sleeps = <<>>
    /\ response = "none"
    /\ sent_file = None

NextBoot ==
    \/ init_db_once
    \/ \E username \in FlaskUsernames, password \in FlaskPasswords :
            login_post(username, password)
    \/ logout
    \/ \E busy \in BOOLEAN : get_conn(busy)
    \/ \E busy \in BOOLEAN : execute(busy)

SpecBoot == InitBoot /\ [][NextBoot]_vars

RECURSIVE Boots(_, _)
Boots(tbl, n) == IF n = 0 THEN tbl ELSE Boots(init_db_once_users(tbl), n - 1)

\* C21: the start of the app creates the default admin account exactly when the
\* users table is empty and otherwise leaves the table as it is; once the app
\* has started, any number of further starts in sequence changes no account, and
\* a store that was empty holds exactly the one default admin.
C21_DefaultAdminOnce ==
    /\ [][(pc = "stopped" /\ pc' # "stopped") =>
            IF DOMAIN flask_users = {}
                THEN flask_users' = ("admin" :>
                        [id |-> 1, password_hash |-> generate_password_hash("admin"),
                         role |-> "admin"])
                ELSE flask_users' = flask_users]_vars
    /\ [][pc # "stopped" => flask_users' = flask_users]_vars
    /\ [](pc # "stopped" =>
            /\ DOMAIN flask_users # {}
            /\ \A n \in 1..MaxBoots : Boots(flask_users, n) = flask_users
            /\ stdout # <<>> => (DOMAIN flask_users = {"admin"} /\ Len(stdout) = 1))

\* the app has started on an empty store, has been started again, and the one
\* account is the default admin
C21_Witness ==
    /\ pc = "idle"
    /\ Len(stdout) = 1
    /\ flask_users = ("admin" :> default_admin)
    /\ response = "login_ok"

\* the routes behind admin_required
AdminRoutes == {"admin_index", "listar_proyectos_admin", "export_csv", "export_excel"}

\* the last request went to a route behind admin_required, and has been answered
AdminAnswered == request # None /\ request.route \in AdminRoutes /\ pc = "idle"

\* the session is the one a successful login of an admin account sets
LoggedInAdmin ==
    /\ session # None
    /\ session.username \in DOMAIN flask_users
    /\ session = [user_id |-> flask_users[session.username].id,
                  username |-> session.username, role |-> "admin"]

\* C22: in Flask the admin panel, the project list and the CSV and Excel exports
\* answer with data only while the session holds the user_id and the role
\* 'admin' that a successful login has set and no logout has cleared; otherwise
\* the request is redirected to login and gets no data.  The public create is
\* never refused for want of a login.
C22_AdminRoutesNeedLogin ==
    /\ [](AdminAnswered =>
            IF LoggedInAdmin
                THEN response # "access_denied"
                ELSE session = None /\ response = "access_denied" /\ sent_file = None)
    /\ [][session' # session =>
            \/ request'.route = "logout" /\ session' = None
            \/ /\ request.route = "login" /\ response' = "login_ok"
               /\ check_password_hash(flask_users[request.username].password_hash,
                                      request.password)
               /\ session'.username = request.username]_vars
    /\ [](CreateAnswered => response \in {"saved", "db_busy", "error_500_ValueError"})

\* the project list has been served to the logged-in admin
C22_Witness ==
    /\ AdminAnswered
    /\ request.route = "listar_proyectos_admin"
    /\ response = "project_list"
    /\ LoggedInAdmin

(***************************************************************************)
(* Specification for the Streamlit round trip: a text, a date, a            *)
(* coordinate, a count and a quarterly amount are typed, saved and loaded   *)
(***************************************************************************)
RoundTripEdits ==
    {<<"fecha_fin", Today + 1>>, <<"latitud", 1>>, <<"beneficiarios_hombres", 1>>,
     <<"meta_plan_1", MaxVal>>, <<"nombre_proyecto", <<"Q">>>>}
RoundTripForms == {[nombre_proyecto |-> Str(NameP)]}

NextRoundTrip == Fill(RoundTripEdits, RoundTripForms)
SpecRoundTrip == Init /\ [][NextRoundTrip]_vars

\* the session keys of the widgets of the project form: every key the reset
\* restores, without the sidebar, the control flags and the annual sums, which no
\* widget holds
ProjectFields ==
    SHORT_KEYS \ {"sidebar_usuario", "edit_id", "pending_load", "do_reset", "pending_delete_id",
                  "meta_plan_anual", "meta_cum_anual", "pres_prog_anual", "pres_dev_anual"}

\* C23: in Streamlit, a save followed by a search of the id the store assigned
\* loads into the form, for every project field, exactly the value that was
\* submitted, and selects that id.
C23_SaveSearchRoundTrip ==
    \A s \in Sessions :
        LET st == ScriptTop(ss[s])
            saved == SaveTable(st, projects, next_id, now)
            after == SaveSession(st)
            loaded == SearchSession(after, saved, next_id)
        IN  SaveResult(st) = "save_ok" =>
                /\ SearchResult(saved, next_id) = "search_loaded"
                /\ loaded.edit_id = IdOf(next_id)
                /\ \A k \in ProjectFields : loaded[k] = st[k]

\* a saved record with a date, a coordinate and a count away from their defaults
\* has been searched and is in the form
C23_Witness ==
    /\ 1 \in DOMAIN projects
    /\ ss["s1"].edit_id = IdOf(1)
    /\ ss["s1"].fecha_fin = Today + 1 /\ projects[1].fecha_fin = isoformat(Today + 1)
    /\ ss["s1"].latitud = 1 /\ projects[1].latitud = Some(1)
    /\ ss["s1"].beneficiarios_hombres = 1 /\ projects[1].beneficiarios_hombres = 1
    /\ ss["s1"].sidebar_usuario = ""

(***************************************************************************)
(* Specification for two Streamlit sessions that write the same record:    *)
(* s1 is the creator's browser, s2 the one where the admin credentials are *)
(* typed; updates and deletes run statement by statement                   *)
(***************************************************************************)
RaceEdits(s) ==
    IF s = "s1"
    THEN {<<"nombre_proyecto", NameP>>}
    ELSE {<<"nombre_proyecto", <<"Q">>>>, <<"beneficiarios_hombres", 1>>,
          <<"admin_user_input", ADMIN_USER>>, <<"admin_pwd_input", ADMIN_PASSWORD>>}

NextRace ==
    \E s \in Sessions :
        \/ running[s] = None /\ \E e \in RaceEdits(s) : SetField(s, e[1], e[2])
        \/ running[s] = None /\ Register(s, UserOf(s), Password, Password)
        \/ running[s] = None /\ Login(s, UserOf(s), Password)
        \/ running[s] = None /\ next_id <= MaxMetricRecords /\ Save(s)
        \/ running[s] = None /\ \E i \in 1..MaxMetricRecords : Search(s, i)
        \/ running[s] = None /\ MarkDelete(s)
        \/ UpdateSelect(s)
        \/ UpdateWrite(s)
        \/ ConfirmSelect(s)
        \/ ConfirmWrite(s)

SpecRace == Init /\ [][NextRace]_vars

\* session s commits the UPDATE of its handler in this step
CommitsUpdate(s) ==
    /\ running[s] # None
    /\ running[s].op = "update"
    /\ running'[s] = None
    /\ ss'[s] # ss[s]
    /\ running[s].id \in DOMAIN projects

\* the columns the UPDATE of session s writes, with the values of its form
Written(s) == update_row(ss[s], ss[s].sidebar_usuario)

\* C24: when two sessions that may both edit a record update it concurrently,
\* every commit leaves the record with the values of that one update in every
\* written column, and nothing else changes a stored record: after the last
\* commit the record holds the last update, never a mix of the two.
C24_LastWriteWins ==
    /\ [][\A s \in Sessions : CommitsUpdate(s) =>
            /\ \A k \in DOMAIN Written(s) : projects'[running[s].id][k] = Written(s)[k]
            /\ \A i \in DOMAIN projects \ {running[s].id} :
                    i \in DOMAIN projects' /\ projects'[i] = projects[i]]_vars
    /\ [][\A i \in DOMAIN projects \cap DOMAIN projects' :
            projects'[i] # projects[i] =>
                \E s \in Sessions : CommitsUpdate(s) /\ running[s].id = i]_vars

\* the creator's update is between its two statements, and the update of the
\* other session has committed since the creator's SELECT
C24_Witness ==
    /\ running["s1"] # None
    /\ running["s1"].op = "update"
    /\ running["s1"].owner = Some("alice")
    /\ running["s2"] = None
    /\ running["s1"].id \in DOMAIN projects
    /\ projects[running["s1"].id].usuario = "bob"
    /\ projects[running["s1"].id].nombre_proyecto = <<"Q">>
    /\ ss["s1"].nombre_proyecto = NameP

\* C28: under every interleaving of two Streamlit sessions, a session that is
\* not admin changes or deletes a record only if the creator stored in it at the
\* moment of the UPDATE or DELETE is the session's own user.
C28_OwnerAtWrite ==
    [][\A s \in Sessions :
        (/\ running[s] # None
         /\ running'[s] = None
         /\ projects' # projects
         /\ ~is_admin(ss[s])) =>
            projects[running[s].id].usuario = ss[s].sidebar_usuario]_vars

(***************************************************************************)
(* Specification for the listings: two records with different peoples,     *)
(* countries and creators are saved and updated, then listed under every   *)
(* filter of the sets below                                                *)
(***************************************************************************)
ListEdits(s) ==
    IF s = "s1"
    THEN {<<"nombre_proyecto", NameP>>, <<"nombre_proyecto", <<"Q">>>>,
          <<"pueblo_nacionalidad", <<"a", "b">>>>}
    ELSE {<<"nombre_proyecto", NameP>>, <<"pueblo_nacionalidad", <<"A">>>>,
          <<"pais_intervencion", "Peru">>}

NextList ==
    \/ \E s \in Sessions :
        \/ \E e \in ListEdits(s) : SetField(s, e[1], e[2])
        \/ Register(s, UserOf(s), Password, Password)
        \/ Login(s, UserOf(s), Password)
        \/ Save(s)
    \/ \E i \in 1..MaxRecords : Search("s1", i)
    \/ Update("s1")
    \/ \E locked \in {0} : nuevo_proyecto_public([nombre_proyecto |-> Str(NameP)], locked)

SpecList == Init /\ [][NextList]_vars

PuebloFilters == {EmptyText, <<"a">>, <<"b">>, <<"a", "b">>, <<".">>, <<"a", ".">>}
PaisFilters == {"", "Ecuador", "Peru"}
UsuarioFilters == {EmptyText, <<"b">>, <<"l", "i">>}

\* text holds pat as a substring, letter case aside
IsSubstringNoCase(pat, text) ==
    \E i \in 1..(Len(text) - Len(pat) + 1) :
        \A j \in 1..Len(pat) : casefold(text[i + j - 1]) = casefold(pat[j])

\* text holds pat as a substring
IsSubstring(pat, text) == \E i \in 1..(Len(text) - Len(pat) + 1) : SubSeq(text, i, i + Len(pat) - 1) = pat

\* the ids of the sequence, and whether it runs from the newest record to the oldest
Listed(seq) == {seq[i] : i \in DOMAIN seq}
NewestFirst(seq, tbl) ==
    \A i, j \in DOMAIN seq : i < j => tbl[seq[i]].created_at > tbl[seq[j]].created_at

\* C25: a listing returns exactly the stored records that satisfy all active
\* filters (substring of pueblo_nacionalidad whatever the letter case, equal
\* country, substring of the submitting user), each once, the most recently
\* created first, also after older records were updated; the Flask list, which
\* has no filter, returns every record, the newest first.
C25_ListingMatchesFilters ==
    /\ \A fp \in PuebloFilters, fc \in PaisFilters, fu \in UsuarioFilters :
         LET df == panel_df(projects, fp, fc, fu) IN
         /\ Listed(df) = {i \in DOMAIN projects :
                /\ fp # EmptyText => IsSubstringNoCase(fp, projects[i].pueblo_nacionalidad)
                /\ fc # "" => projects[i].pais_intervencion = fc
                /\ fu # EmptyText => IsSubstring(fu, text_of(projects[i].usuario))}
         /\ Len(df) = Cardinality(Listed(df))
         /\ NewestFirst(df, projects)
    /\ LET rows == listar_proyectos_rows(proyectos_simsea) IN
         /\ Listed(rows) = DOMAIN proyectos_simsea
         /\ \A i, j \in DOMAIN rows : i < j => rows[i] > rows[j]

(***************************************************************************)
(* Specification for the exports: the app has started with or without      *)
(* pandas; the admin logs in, a project is submitted, the two exports are   *)
(* requested                                                                *)
(***************************************************************************)
InitExport ==
    /\ AppInit
    /\ percent_call = None
    /\ flask_users = init_db_once_users(EmptyTable)
    /\ stdout = init_db_once_stdout(EmptyTable, <<>>)
    /\ PANDAS_AVAILABLE \in BOOLEAN          \* lines 25-29: import pandas succeeded or not
    /\ RequestInit

NextExport ==
    \/ \E form \in RetryForms : nuevo_proyecto_public_post(form)
    \/ login_post("admin", "admin")
    \/ logout
    \/ export_csv
    \/ export_excel
    \/ \E busy \in BOOLEAN : get_conn(busy)
    \/ \E busy \in BOOLEAN : execute(busy)

SpecExport == InitExport /\ [][NextExport]_vars

\* the part of a file name after its last period
extension(download_name) ==
    IF download_name = "simsea_proyectos.csv" THEN "csv"
    ELSE IF download_name = "simsea_proyectos.xlsx" THEN "xlsx"
    ELSE "none"

\* the extensions and the media types by which a browser takes a download for a workbook
SpreadsheetExtensions == {"xlsx", "xls"}

\* the Excel export has been answered with a download
ExcelAnswered ==
    /\ request # None /\ request.route = "export_excel"
    /\ pc = "idle" /\ sent_file # None

\* the lines of the CSV dump of the table: the column names, then one line per record
CsvDump(tbl) ==
    <<{"id"} \cup DOMAIN tbl[1]>> \o
        [i \in 1..Cardinality(DOMAIN tbl) |-> [id |-> i] @@ tbl[i]]

\* C26: when pandas is not available, the Excel export answers with the CSV
\* dump (the header row of column names, one row per record) under a
\* spreadsheet file extension, the same name a real workbook is sent under.
C26_ExcelFallbackNamedSpreadsheet ==
    (ExcelAnswered /\ ~PANDAS_AVAILABLE) =>
        /\ sent_file[1].output = [format |-> "csv", lines |-> CsvDump(proyectos_simsea)]
        /\ extension(sent_file[1].download_name) \in SpreadsheetExtensions
        /\ sent_file[1].download_name =
                export_excel_file(proyectos_simsea, TRUE).download_name

\* a step that answers the create in flight
AnswersCreate == CreateInFlight /\ pc' = "idle"

\* C27: the outcome a Flask public submission reports matches the store.  While
\* the submission is retried no row is inserted; the step that reports success
\* inserts exactly one new row, the values of the submitted form, and leaves the
\* other rows alone; the step that reports 'database busy' inserts none.  So a
\* submission never leaves two rows, whatever the number of its retries.
C27_OutcomeMatchesStore ==
    /\ [][(CreateInFlight /\ pc' # "idle") => proyectos_simsea' = proyectos_simsea]_vars
    /\ [][(AnswersCreate /\ response' = "saved") =>
            /\ Cardinality(DOMAIN proyectos_simsea') = Cardinality(DOMAIN proyectos_simsea) + 1
            /\ \A i \in DOMAIN proyectos_simsea :
                    i \in DOMAIN proyectos_simsea' /\ proyectos_simsea'[i] = proyectos_simsea[i]
            /\ \E i \in DOMAIN proyectos_simsea' \ DOMAIN proyectos_simsea :
                    proyectos_simsea'[i] = insert_values(request.form, now)]_vars
    /\ [][(AnswersCreate /\ response' # "saved") =>
            /\ response' \in {"db_busy", "error_500_ValueError"}
            /\ proyectos_simsea' = proyectos_simsea]_vars

\* a submission was retried, then reported as saved, and the store holds its one row
C27_Witness ==
    /\ CreateAnswered
    /\ response = "saved"
    /\ attempts >= 1
    /\ Cardinality(DOMAIN proyectos_simsea) = 1

\* the session has the project form and the selection of a session that starts
FormReset(after) ==
    /\ \A k \in ProjectFields : after[k] = InitialSession[k]
    /\ after.edit_id = None
    /\ after.pending_delete_id = None

\* C29: in Streamlit the automatic reset that follows a successful save, update
\* or confirmed delete restores the project fields and clears the selection but
\* leaves the active user (sidebar_usuario) as it was; the button 'Limpiar
\* formulario (incluye usuario activo)' is the one action that also clears the
\* active user.
C29_ResetKeepsActiveUser ==
    \A s \in Sessions :
        LET st == ScriptTop(ss[s]) IN
        /\ SaveResult(st) = "save_ok" =>
                /\ FormReset(SaveSession(st))
                /\ SaveSession(st).sidebar_usuario = st.sidebar_usuario
        /\ UpdateResult(st, projects) = "update_ok" =>
                /\ FormReset(UpdateSession(st, projects))
                /\ UpdateSession(st, projects).sidebar_usuario = st.sidebar_usuario
        /\ (Truthy(st.pending_delete_id) /\ ConfirmResult(st, projects) = "delete_ok") =>
                /\ FormReset(ConfirmSession(st, projects))
                /\ ConfirmSession(st, projects).sidebar_usuario = st.sidebar_usuario
        /\ FormReset(LimpiarSession(st)) /\ LimpiarSession(st).sidebar_usuario = ""

\* the handlers of update and of mark-for-deletion refuse the session
Refused(st, tbl) ==
    /\ UpdateResult(st, tbl) = "update_no_selection"
    /\ UpdateTable(st, tbl) = tbl
    /\ UpdateSession(st, tbl) = st
    /\ MarkResult(st) = "mark_no_selection"
    /\ MarkSession(st) = st

\* C30: in Streamlit, update and mark-for-deletion act only on a record that a
\* successful search has selected.  With no selection they change neither the
\* store nor the session, pending_delete_id included; a search for an id that
\* is not positive or not found leaves the session, selection and form, as it
\* was; a successful save, update or confirmed delete leaves no selection, so
\* the next update or mark is refused.  A selection appears only by a search
\* for a stored id, a stored row changes or goes only under a session that
\* selected it, and a record is marked only from the selection.
C30_ActsOnSelectionOnly ==
    /\ [](\A s \in Sessions :
            LET st == ScriptTop(ss[s]) IN
            /\ ~Truthy(st.edit_id) => Refused(st, projects)
            /\ \A i \in 0..(MaxRecords + 1) :
                    SearchResult(projects, i) # "search_loaded" =>
                        SearchSession(st, projects, i) = st
            /\ SaveResult(st) = "save_ok" =>
                    /\ SaveSession(st).edit_id = None
                    /\ Refused(SaveSession(st), SaveTable(st, projects, next_id, now))
            /\ UpdateResult(st, projects) = "update_ok" =>
                    /\ UpdateSession(st, projects).edit_id = None
                    /\ Refused(UpdateSession(st, projects), UpdateTable(st, projects))
            /\ (Truthy(st.pending_delete_id) /\ ConfirmResult(st, projects) = "delete_ok") =>
                    /\ ConfirmSession(st, projects).edit_id = None
                    /\ Refused(ConfirmSession(st, projects), ConfirmTable(st, projects)))
    /\ [][\A s \in Sessions :
            /\ (ss'[s].edit_id # ss[s].edit_id /\ ss'[s].edit_id # None) =>
                    /\ ss'[s].edit_id[2] \in DOMAIN projects
                    /\ ss'[s] = SearchSession(ScriptTop(ss[s]), projects, ss'[s].edit_id[2])
            /\ (ss'[s].pending_delete_id # ss[s].pending_delete_id
                    /\ ss'[s].pending_delete_id # None) =>
                    (Truthy(ss[s].edit_id) /\ ss'[s].pending_delete_id = ss[s].edit_id)]_vars
    /\ [][\A i \in DOMAIN projects :
            (i \notin DOMAIN projects' \/ projects'[i] # projects[i]) =>
                \E s \in Sessions :
                    \/ ss[s].edit_id = IdOf(i) /\ i \in DOMAIN projects'
                    \/ ss[s].pending_delete_id = IdOf(i) /\ i \notin DOMAIN projects']_vars

\* a record was selected, marked and deleted; one session has selected the
\* record that is left and may update it, the other has no selection
C30_Witness ==
    /\ DOMAIN projects = {2}
    /\ \E s \in Sessions :
            /\ ss[s].edit_id = IdOf(2)
            /\ UpdateResult(ss[s], projects) = "update_ok"
            /\ \E t \in Sessions \ {s} : ss[t].edit_id = None /\ Refused(ss[t], projects)

=============================================================================
